---- MODULE Spec2Model ----
(***************************************************************************)
(* Sound Clash websocket service: the round engine (RoundManager as driven *)
(* by the HTTP endpoints of main_complete.py), the team websocket of       *)
(* main_complete.py and the in-memory room of main_simple.py.              *)
(*                                                                         *)
(* The service runs on one asyncio event loop: code between two awaits is  *)
(* one atomic step, and every await is a point where other handlers run.   *)
(* Each action below is the code of one handler between two awaits.        *)
(***************************************************************************)
EXTENDS Integers, Sequences, FiniteSets, Bags, TLC

\* ------------------------------------------------------------------ bounds
\* song requests made on behalf of one game object
MaxStarts == 2
\* timeout penalties applied to the teams of one game object
MaxPenalties == 1
\* main_simple: rounds a manager starts in a room, answers it evaluates
MaxSimpleRounds == 1
MaxEvaluations == 2
\* ticks of the clock of the connection registry
MaxClock == 2
\* buzzer_locked events of one round of a main_simple room
MaxBuzzes == 2

\* ------------------------------------------------------------ input domains
None == "<None>"
GameCodes == {"AB12CD"}
Teams == {"Red", "Blue"}
\* team_name as the /buzzer and /answer endpoints receive it
PressNames == Teams
SongIds == {1, 2}
ReactionTimes == {250}
\* websockets opened against /ws/team/{game_code}
WebSockets == {1, 2}
\* team_name of a team_join message; "" stands for a missing or blank name
JoinNames == {"Red", "Blue", ""}
\* main_simple: websockets, team names and settings.max_teams of a notification
SimpleWebSockets == {1, 2, 3}
SimpleJoinNames == {"Red", "Blue", "Green"}
MaxTeamsInputs == {2}
\* main_simple, the manager's game: team websockets, team names, the song of a
\* start_round message, <<song_correct, artist_correct, wrong_answer>>
ManagerGameSockets == {1, 2}
ManagerGameNames == {"Red", "Blue"}
SimpleSongInputs == {"Song"}
SimpleEvalInputs == {<<TRUE, TRUE, FALSE>>, <<FALSE, FALSE, TRUE>>}
\* main_complete, the submitted answer: max_rounds of the game, the catalog's
\* songs, the team that joins
AnswerMaxRounds == {1}
AnswerSongs == {1}
AnswerTeams == {"Red"}
\* main_simple, names that differ in letter case only: team websockets and names
RosterSockets == {1, 2}
RosterJoinNames == {"Red", "red", "Blue"}
\* handlers: the websockets, which are the connection ids
HandlerWebSockets == {1, 2, 3}
\* the team name the websockets of a broadcast_to_game connect under
BroadcastTeams == {"Red"}
\* the websockets and team names of the registry, and the timeout the reaper
\* is called with, in ticks of the clock
RegistrySockets == {1, 2}
RegistryTeams == {"Red", "Blue"}
TimeoutInputs == {1}
MaxRoundsInputs == {1, 2}
AnswerInputs == {[song_name |-> "Song", artist_name |-> "Artist", movie_tv_name |-> None]}
\* <<song_correct, artist_correct, movie_tv_correct>> as the manager sends them
EvalInputs == {<<TRUE, TRUE, FALSE>>, <<FALSE, FALSE, FALSE>>}

\* two rooms side by side: their game codes, the team name used in both, the
\* websockets, the catalog's song, the manager's evaluation
IsolationCodes == {"AB12CD", "XY34ZW"}
IsolationTeams == {"Red"}
IsolationSockets == {1, 2}
IsolationSongs == {1}
IsolationEvalInputs == {<<TRUE, FALSE, FALSE>>}

\* Python truthiness of an Optional[str]: None and "" are both falsy
Truthy(s) == s # None /\ s # ""

VARIABLES
    games,        \* RoundManager.games: game_code -> GameData
    sr_calls,     \* start_round coroutines suspended in select_random_song
    accepted,     \* history: presses accepted against the latest round
    penalties,    \* history: timeout penalties applied to the game object
    starts,       \* history: song requests made for the game object
    last,         \* history: what the RoundManager call handled last returned
    team_connections,  \* main_complete ConnectionManager.team_connections
    sockets,      \* main_complete: the websocket handler of each websocket
    manager_connections, \* main_complete ConnectionManager.manager_connections
    answer_submitted,    \* history: the websockets an answer_submitted event went to
    rooms,        \* main_simple MemoryStorage.rooms: game_code -> GameRoom
    simple_sockets, \* main_simple: the websocket_team_endpoint handler of each websocket
    active_connections, \* handlers ConnectionManager.active_connections
    handler_sockets,    \* handlers: registration state of each websocket
    broadcast,    \* handlers: the broadcast_to_game coroutine in progress
    cm_team_connections,    \* handlers ConnectionManager.team_connections
    cm_manager_connections, \* handlers ConnectionManager.manager_connections
    last_ping,    \* handlers ConnectionManager.last_ping
    clock,        \* handlers: datetime.now()
    cm_last,      \* history: what the ConnectionManager call handled last returned
    teams_only,   \* handlers: the broadcast_to_teams_only coroutine in progress
    personal,     \* handlers: the send_personal_message coroutine in progress
    game_rooms,   \* handlers: the DynamoDB table of game rooms
    team_table    \* handlers: the DynamoDB table of team connections

engine_vars == <<games, sr_calls, accepted, penalties, starts, last>>
complete_vars == <<team_connections, sockets, manager_connections, answer_submitted>>
simple_vars == <<rooms, simple_sockets>>
dynamodb_vars == <<game_rooms, team_table>>
handler_vars == <<active_connections, handler_sockets, broadcast,
                  cm_team_connections, cm_manager_connections, last_ping, clock,
                  cm_last, teams_only, personal, game_rooms, team_table>>
vars == <<games, sr_calls, accepted, penalties, starts, last,
          team_connections, sockets, manager_connections, answer_submitted,
          rooms, simple_sockets,
          active_connections, handler_sockets, broadcast,
          cm_team_connections, cm_manager_connections, last_ping, clock,
          cm_last, teams_only, personal, game_rooms, team_table>>

\* ---------------------------------------------------------------- helpers
\* What the call handled last returned. ok: a result (True, an object) or a
\* refusal (False, None); winner: the winner an end_game call reports.
Ret(op, c, ok, winner) == [ok |-> ok, winner |-> winner]

HasGame(c) == c \in DOMAIN games

Put(f, k, v) == [x \in DOMAIN f \cup {k} |-> IF x = k THEN v ELSE f[x]]

\* game.rounds_history[-1]
current_round_of(g) == g.rounds_history[Len(g.rounds_history)]

\* game.rounds_history[-1] = r
WithCurrentRound(g, r) ==
    [g EXCEPT !.rounds_history = [@ EXCEPT ![Len(@)] = r]]

\* team_scores is a Python dict: its items keep their insertion order, which
\* end_game reads. It is modelled as a sequence of [team, score] items.
ScoredTeams(ts) == {ts[i].team : i \in DOMAIN ts}

ScoreOf(ts, t) == IF t \in ScoredTeams(ts)
                    THEN (CHOOSE x \in {ts[i] : i \in DOMAIN ts} : x.team = t).score
                    ELSE 0

\* if w not in team_scores: team_scores[w] = 0
InitScore(ts, w) == IF w \in ScoredTeams(ts) THEN ts
                    ELSE Append(ts, [team |-> w, score |-> 0])

AddScore_every_team(ts, w, d) ==
    [i \in DOMAIN InitScore(ts, w) |->
        [team |-> InitScore(ts, w)[i].team, score |-> InitScore(ts, w)[i].score + d]]

\* if w not in team_scores: team_scores[w] = 0 ; team_scores[w] += d
AddScore(ts, w, d) ==
    [i \in DOMAIN InitScore(ts, w) |->
        IF InitScore(ts, w)[i].team = w
          THEN [team |-> w, score |-> InitScore(ts, w)[i].score + d]
          ELSE InitScore(ts, w)[i]]

RoundScore(t, s, a, m, pts, to) ==
    [team_name |-> t, song_correct |-> s, artist_correct |-> a,
     movie_tv_correct |-> m, points_earned |-> pts, buzzer_timeout |-> to]

\* points of evaluate_answer
Points(s, a, m) == (IF s THEN 10 ELSE 0) + (IF a THEN 5 ELSE 0) + (IF m THEN 5 ELSE 0)

\* ------------------------------------------------------------ RoundManager
\* A start_round coroutine keeps the GameData object it read before its
\* await. create_game puts a new object under the code, so a coroutine
\* suspended on the old one resumes on an object that nothing else reads any
\* more: whatever it appends is invisible to the service, and the coroutine
\* leaves the model here.
OrphanCalls(calls, c) ==
    [r \in {x \in DOMAIN calls : x.code # c} |-> calls[r]]

create_game(c, mr) ==
    /\ games' = Put(games, c,
                    [state |-> "waiting", current_round |-> 0,
                     max_rounds |-> mr, rounds_history |-> <<>>,
                     team_scores |-> <<>>])
    /\ sr_calls' = OrphanCalls(sr_calls, c)
    /\ accepted' = 0
    /\ penalties' = 0
    /\ starts' = 0
    /\ last' = Ret("create_game", c, TRUE, None)

start_game(c) ==
    /\ IF ~HasGame(c)
         THEN /\ last' = Ret("start_game", c, FALSE, None)
              /\ UNCHANGED games
         ELSE IF games[c].state # "waiting"
         THEN /\ last' = Ret("start_game", c, TRUE, None)
              /\ UNCHANGED games
         ELSE /\ games' = [games EXCEPT ![c].state = "playing"]
              /\ last' = Ret("start_game", c, TRUE, None)
    /\ UNCHANGED <<sr_calls, accepted, penalties, starts>>

\* start_round up to its await: the checks, and the exclusion list
start_round_call(c) ==
    /\ IF \/ ~HasGame(c)
          \/ games[c].state # "playing"
          \/ games[c].current_round >= games[c].max_rounds
         THEN /\ last' = Ret("start_round", c, FALSE, None)
              /\ UNCHANGED <<sr_calls, starts>>
         ELSE /\ starts < MaxStarts
              /\ starts' = starts + 1
              /\ sr_calls' = sr_calls (+) SetToBag({
                     [code |-> c,
                      exclude_ids |-> {games[c].rounds_history[i].song :
                                         i \in DOMAIN games[c].rounds_history}]})
              /\ last' = Ret("start_round_call", c, TRUE, None)
    /\ UNCHANGED <<games, accepted, penalties>>

\* what the song catalog may answer: a song outside the exclusion list, or
\* nothing (no song left, HTTP error, timeout)
CatalogAnswers(exclude_ids) == (SongIds \ exclude_ids) \cup {0}

NewRound_numbered_from_zero(n, song) ==
    [round_number |-> n - 1, state |-> "song_playing", song |-> song,
     buzzer_winner |-> None, buzzer_press |-> <<>>, team_answer |-> <<>>,
     scores |-> <<>>]

NewRound(n, song) ==
    [round_number |-> n, state |-> "song_playing", song |-> song,
     buzzer_winner |-> None, buzzer_press |-> <<>>, team_answer |-> <<>>,
     scores |-> <<>>]

start_round_return_counting_first(call, song) ==
    /\ BagIn(call, sr_calls)
    /\ song \in CatalogAnswers(call.exclude_ids)
    /\ sr_calls' = sr_calls (-) SetToBag({call})
    /\ LET c == call.code
       IN IF song = 0
            THEN /\ games' = [games EXCEPT ![c].current_round = @ + 1]
                 /\ last' = Ret("start_round", c, FALSE, None)
                 /\ UNCHANGED accepted
            ELSE /\ games' = [games EXCEPT ![c] =
                        [@ EXCEPT !.current_round = @ + 1,
                                  !.rounds_history =
                                      Append(@, NewRound(games[c].current_round + 1, song))]]
                 /\ accepted' = 0
                 /\ last' = Ret("start_round", c, TRUE, None)
    /\ UNCHANGED <<penalties, starts>>

\* start_round after its await; song = 0 stands for select_random_song -> None
start_round_return(call, song) ==
    /\ BagIn(call, sr_calls)
    /\ song \in CatalogAnswers(call.exclude_ids)
    /\ sr_calls' = sr_calls (-) SetToBag({call})
    /\ LET c == call.code
       IN IF song = 0
            THEN /\ last' = Ret("start_round", c, FALSE, None)
                 /\ UNCHANGED <<games, accepted>>
            ELSE /\ games' = [games EXCEPT ![c] =
                        [@ EXCEPT !.current_round = @ + 1,
                                  !.rounds_history =
                                      Append(@, NewRound(games[c].current_round + 1, song))]]
                 /\ accepted' = 0
                 /\ last' = Ret("start_round", c, TRUE, None)
    /\ UNCHANGED <<penalties, starts>>

BuzzerLock(cur, t, r) ==
    [cur EXCEPT !.state = "buzzer_locked",
                !.buzzer_winner = t,
                !.buzzer_press = <<[team_name |-> t, reaction_time_ms |-> r]>>]

register_buzzer_press_unchecked(c, t, r) ==
    /\ IF ~HasGame(c) \/ games[c].rounds_history = <<>>
         THEN /\ last' = Ret("register_buzzer_press", c, FALSE, None)
              /\ UNCHANGED <<games, accepted>>
         ELSE /\ games' = [games EXCEPT ![c] =
                     WithCurrentRound(@, BuzzerLock(current_round_of(@), t, r))]
              /\ accepted' = accepted + 1
              /\ last' = Ret("register_buzzer_press", c, TRUE, None)
    /\ UNCHANGED <<sr_calls, penalties, starts>>

register_buzzer_press(c, t, r) ==
    /\ IF ~HasGame(c) \/ games[c].rounds_history = <<>>
         THEN /\ last' = Ret("register_buzzer_press", c, FALSE, None)
              /\ UNCHANGED <<games, accepted>>
         ELSE IF current_round_of(games[c]).state # "song_playing"
         THEN /\ last' = Ret("register_buzzer_press", c, FALSE, None)
              /\ UNCHANGED <<games, accepted>>
         ELSE /\ games' = [games EXCEPT ![c] =
                     WithCurrentRound(@, BuzzerLock(current_round_of(@), t, r))]
              /\ accepted' = accepted + 1
              /\ last' = Ret("register_buzzer_press", c, TRUE, None)
    /\ UNCHANGED <<sr_calls, penalties, starts>>

submit_answer_any_state(c, t, ans) ==
    /\ IF ~HasGame(c) \/ games[c].rounds_history = <<>>
         THEN /\ last' = Ret("submit_answer", c, FALSE, None)
              /\ UNCHANGED games
         ELSE LET cur == current_round_of(games[c])
              IN IF cur.buzzer_winner # t
                   THEN /\ last' = Ret("submit_answer", c, FALSE, None)
                        /\ UNCHANGED games
                   ELSE /\ games' = [games EXCEPT ![c] = WithCurrentRound(@,
                               [cur EXCEPT
                                   !.team_answer = <<[team_name |-> t] @@ ans>>,
                                   !.state = "evaluating"])]
                        /\ last' = Ret("submit_answer", c, TRUE, None)
    /\ UNCHANGED <<sr_calls, accepted, penalties, starts>>

submit_answer_any_team(c, t, ans) ==
    /\ IF ~HasGame(c) \/ games[c].rounds_history = <<>>
         THEN /\ last' = Ret("submit_answer", c, FALSE, None)
              /\ UNCHANGED games
         ELSE LET cur == current_round_of(games[c])
              IN IF cur.state # "buzzer_locked"
                   THEN /\ last' = Ret("submit_answer", c, FALSE, None)
                        /\ UNCHANGED games
                   ELSE /\ games' = [games EXCEPT ![c] = WithCurrentRound(@,
                               [cur EXCEPT
                                   !.team_answer = <<[team_name |-> t] @@ ans>>,
                                   !.state = "evaluating"])]
                        /\ last' = Ret("submit_answer", c, TRUE, None)
    /\ UNCHANGED <<sr_calls, accepted, penalties, starts>>

submit_answer(c, t, ans) ==
    /\ IF ~HasGame(c) \/ games[c].rounds_history = <<>>
         THEN /\ last' = Ret("submit_answer", c, FALSE, None)
              /\ UNCHANGED games
         ELSE LET cur == current_round_of(games[c])
              IN IF cur.buzzer_winner # t \/ cur.state # "buzzer_locked"
                   THEN /\ last' = Ret("submit_answer", c, FALSE, None)
                        /\ UNCHANGED games
                   ELSE /\ games' = [games EXCEPT ![c] = WithCurrentRound(@,
                               [cur EXCEPT
                                   !.team_answer = <<[team_name |-> t] @@ ans>>,
                                   !.state = "evaluating"])]
                        /\ last' = Ret("submit_answer", c, TRUE, None)
    /\ UNCHANGED <<sr_calls, accepted, penalties, starts>>

evaluate_answer_any_state(c, s, a, m) ==
    /\ IF ~HasGame(c) \/ games[c].rounds_history = <<>>
         THEN /\ last' = Ret("evaluate_answer", c, FALSE, None)
              /\ UNCHANGED games
         ELSE LET cur == current_round_of(games[c])
                  w == cur.buzzer_winner
              IN IF ~Truthy(w)
                   THEN /\ last' = Ret("evaluate_answer", c, FALSE, None)
                        /\ UNCHANGED games
                   ELSE /\ games' = [games EXCEPT ![c] =
                               [WithCurrentRound(@,
                                   [cur EXCEPT
                                       !.scores = Put(@, w,
                                           RoundScore(w, s, a, m, Points(s, a, m), FALSE)),
                                       !.state = "completed"])
                                EXCEPT !.team_scores = AddScore(@, w, Points(s, a, m))]]
                        /\ last' = Ret("evaluate_answer", c, TRUE, None)
    /\ UNCHANGED <<sr_calls, accepted, penalties, starts>>

evaluate_answer(c, s, a, m) ==
    /\ IF ~HasGame(c) \/ games[c].rounds_history = <<>>
         THEN /\ last' = Ret("evaluate_answer", c, FALSE, None)
              /\ UNCHANGED games
         ELSE LET cur == current_round_of(games[c])
                  w == cur.buzzer_winner
              IN IF cur.state # "evaluating" \/ ~Truthy(w)
                   THEN /\ last' = Ret("evaluate_answer", c, FALSE, None)
                        /\ UNCHANGED games
                   ELSE /\ games' = [games EXCEPT ![c] =
                               [WithCurrentRound(@,
                                   [cur EXCEPT
                                       !.scores = Put(@, w,
                                           RoundScore(w, s, a, m, Points(s, a, m), FALSE)),
                                       !.state = "completed"])
                                EXCEPT !.team_scores = AddScore(@, w, Points(s, a, m))]]
                        /\ last' = Ret("evaluate_answer", c, TRUE, None)
    /\ UNCHANGED <<sr_calls, accepted, penalties, starts>>

\* the loop of end_game: the first item, in insertion order, whose score is
\* above every earlier one and above -1
RECURSIVE WinnerFrom(_, _, _, _)
WinnerFrom(ts, i, winner, max_score) ==
    IF i > Len(ts) THEN winner
    ELSE IF ts[i].score > max_score
           THEN WinnerFrom(ts, i + 1, ts[i].team, ts[i].score)
           ELSE WinnerFrom(ts, i + 1, winner, max_score)

end_game(c) ==
    /\ IF ~HasGame(c)
         THEN /\ last' = Ret("end_game", c, FALSE, None)
              /\ UNCHANGED games
         ELSE /\ games' = [games EXCEPT ![c].state = "finished"]
              /\ last' = Ret("end_game", c, TRUE, WinnerFrom(games[c].team_scores, 1, None, -1))
    /\ UNCHANGED <<sr_calls, accepted, penalties, starts>>

handle_timeout_releasing_buzzer(c) ==
    /\ IF ~HasGame(c) \/ games[c].rounds_history = <<>>
         THEN /\ last' = Ret("handle_timeout", c, FALSE, None)
              /\ UNCHANGED <<games, penalties>>
         ELSE LET cur == current_round_of(games[c])
                  w == cur.buzzer_winner
              IN IF Truthy(w)
                   THEN /\ penalties < MaxPenalties
                        /\ penalties' = penalties + 1
                        /\ games' = [games EXCEPT ![c] =
                               [WithCurrentRound(@,
                                   [cur EXCEPT
                                       !.scores = Put(@, w,
                                           RoundScore(w, FALSE, FALSE, FALSE, -2, TRUE)),
                                       !.buzzer_winner = None,
                                       !.state = "completed"])
                                EXCEPT !.team_scores = AddScore(@, w, -2)]]
                        /\ last' = Ret("handle_timeout", c, TRUE, None)
                   ELSE /\ games' = [games EXCEPT ![c] =
                               WithCurrentRound(@, [cur EXCEPT !.state = "completed"])]
                        /\ last' = Ret("handle_timeout", c, TRUE, None)
                        /\ UNCHANGED penalties
    /\ UNCHANGED <<sr_calls, accepted, starts>>

handle_timeout(c) ==
    /\ IF ~HasGame(c) \/ games[c].rounds_history = <<>>
         THEN /\ last' = Ret("handle_timeout", c, FALSE, None)
              /\ UNCHANGED <<games, penalties>>
         ELSE LET cur == current_round_of(games[c])
                  w == cur.buzzer_winner
              IN IF Truthy(w)
                   THEN /\ penalties < MaxPenalties
                        /\ penalties' = penalties + 1
                        /\ games' = [games EXCEPT ![c] =
                               [WithCurrentRound(@,
                                   [cur EXCEPT
                                       !.scores = Put(@, w,
                                           RoundScore(w, FALSE, FALSE, FALSE, -2, TRUE)),
                                       !.state = "completed"])
                                EXCEPT !.team_scores = AddScore(@, w, -2)]]
                        /\ last' = Ret("handle_timeout", c, TRUE, None)
                   ELSE /\ games' = [games EXCEPT ![c] =
                               WithCurrentRound(@, [cur EXCEPT !.state = "completed"])]
                        /\ last' = Ret("handle_timeout", c, TRUE, None)
                        /\ UNCHANGED penalties
    /\ UNCHANGED <<sr_calls, accepted, starts>>

\* ------------------------------------------ main_complete: team websockets
Drop(f, K) == [x \in DOMAIN f \ K |-> f[x]]

FreeSocket ==
    [pc |-> "free", game_code |-> None, team_name |-> None, open |-> TRUE, ack |-> None]

\* ConnectionManager.connect_team
connect_team(tc, c, t, w) ==
    Put(tc, c, Put(IF c \in DOMAIN tc THEN tc[c] ELSE <<>>, t, w))

\* ConnectionManager.disconnect_team
disconnect_team(tc, c, t) ==
    IF c \in DOMAIN tc THEN [tc EXCEPT ![c] = Drop(@, {t})] ELSE tc

\* ConnectionManager.get_teams_list
get_teams_list(tc, c) == IF c \in DOMAIN tc THEN DOMAIN tc[c] ELSE {}

\* the teams of the room whose websocket the client has left: a send to such
\* a websocket may raise or not, depending on what the server has seen of
\* the close
DeadTeams(tc, c, socks) ==
    IF c \in DOMAIN tc THEN {t \in DOMAIN tc[c] : ~socks[tc[c][t]].open} ELSE {}

\* ConnectionManager.broadcast_to_teams, failed being the teams whose send
\* raised: each one is disconnected by name
broadcast_to_teams(tc, c, failed) ==
    IF c \in DOMAIN tc THEN [tc EXCEPT ![c] = Drop(@, failed)] ELSE tc

\* ConnectionManager.connect_manager; the list of websockets is kept as a set
connect_manager(mc, c, w) == Put(mc, c, (IF c \in DOMAIN mc THEN mc[c] ELSE {}) \cup {w})

\* ConnectionManager.disconnect_manager
disconnect_manager(mc, c, w) ==
    IF c \in DOMAIN mc THEN [mc EXCEPT ![c] = @ \ {w}] ELSE mc

Managers(mc, c) == IF c \in DOMAIN mc THEN mc[c] ELSE {}

\* the managers of the room whose websocket the client has left
DeadManagers(mc, c, socks) == {w \in Managers(mc, c) : ~socks[w].open}

\* ConnectionManager.broadcast_to_managers, failed being the websockets whose
\* send raised: each one is disconnected
broadcast_to_managers(mc, c, failed) ==
    IF c \in DOMAIN mc THEN [mc EXCEPT ![c] = @ \ failed] ELSE mc

\* ConnectionManager.broadcast_to_all as it acts on the connections
broadcast_to_all(c) ==
    /\ \E failed \in SUBSET DeadTeams(team_connections, c, sockets) :
           team_connections' = broadcast_to_teams(team_connections, c, failed)
    /\ \E failed \in SUBSET DeadManagers(manager_connections, c, sockets) :
           manager_connections' = broadcast_to_managers(manager_connections, c, failed)

\* POST /api/game/{game_code}/start: start_game, then game_started to everyone
start_game_endpoint(c) ==
    /\ start_game(c)
    /\ IF HasGame(c) THEN broadcast_to_all(c)
                     ELSE UNCHANGED <<team_connections, manager_connections>>
    /\ UNCHANGED <<sockets, answer_submitted, simple_vars, handler_vars>>

\* POST /api/game/{game_code}/end: end_game, then game_finished to everyone
end_game_endpoint(c) ==
    /\ end_game(c)
    /\ IF HasGame(c) THEN broadcast_to_all(c)
                     ELSE UNCHANGED <<team_connections, manager_connections>>
    /\ UNCHANGED <<sockets, answer_submitted, simple_vars, handler_vars>>

\* team_websocket from the team_join message to the await of the ack
team_websocket_join(w, c, t) ==
    /\ sockets[w].pc = "free"
    /\ IF ~Truthy(t)
         THEN /\ sockets' = [sockets EXCEPT ![w].pc = "closed", ![w].open = FALSE]
              /\ UNCHANGED <<games, team_connections>>
         ELSE IF ~HasGame(c)
         THEN /\ sockets' = [sockets EXCEPT ![w].pc = "leaving", ![w].game_code = c,
                                             ![w].team_name = t]
              /\ UNCHANGED <<games, team_connections>>
         ELSE /\ team_connections' = connect_team(team_connections, c, t, w)
              /\ games' = [games EXCEPT ![c].team_scores = InitScore(@, t)]
              /\ sockets' = [sockets EXCEPT
                     ![w].pc = "acking",
                     ![w].game_code = c,
                     ![w].team_name = t,
                     ![w].ack = [type |-> "connection_ack", team_name |-> t,
                                 game_code |-> c, game_state |-> games[c].state]]
    /\ UNCHANGED <<sr_calls, accepted, penalties, starts, last, manager_connections,
                   answer_submitted, simple_vars, handler_vars>>

\* the finally block of team_websocket
team_websocket_cleanup(w, socks) ==
    LET c == socks[w].game_code
        left == disconnect_team(team_connections, c, socks[w].team_name)
    IN /\ \E failed \in SUBSET DeadTeams(left, c, socks) :
              team_connections' = broadcast_to_teams(left, c, failed)
       /\ \E failed \in SUBSET DeadManagers(manager_connections, c, socks) :
              manager_connections' = broadcast_to_managers(manager_connections, c, failed)

\* team_websocket from the send of the ack to the message loop: the ack, then
\* the team_joined broadcast; a send that raises leads to the finally block
team_websocket_ack(w) ==
    /\ sockets[w].pc = "acking"
    /\ \/ /\ sockets' = [sockets EXCEPT ![w].pc = "loop"]
          /\ broadcast_to_all(sockets[w].game_code)
       \/ /\ ~sockets[w].open
          /\ sockets' = [sockets EXCEPT ![w].pc = "closed"]
          /\ team_websocket_cleanup(w, sockets')
    /\ UNCHANGED <<engine_vars, answer_submitted, simple_vars, handler_vars>>

\* the client side of a websocket goes away
client_close(w) ==
    /\ sockets[w].pc \in {"acking", "loop", "manager"}
    /\ sockets[w].open
    /\ sockets' = [sockets EXCEPT ![w].open = FALSE]
    /\ UNCHANGED <<engine_vars, team_connections, manager_connections, answer_submitted,
                   simple_vars, handler_vars>>

\* team_websocket leaves: WebSocketDisconnect, the 30 s receive timeout or the
\* return after an error message, then the finally block
team_websocket_finally(w) ==
    /\ sockets[w].pc \in {"loop", "leaving"}
    /\ sockets' = [sockets EXCEPT ![w].pc = "closed", ![w].open = FALSE]
    /\ team_websocket_cleanup(w, sockets')
    /\ UNCHANGED <<engine_vars, answer_submitted, simple_vars, handler_vars>>

\* manager_websocket up to its message loop: an unknown game ends the handler,
\* whose finally block finds nothing to disconnect
manager_websocket_connect(w, c) ==
    /\ sockets[w].pc = "free"
    /\ IF ~HasGame(c)
         THEN /\ sockets' = [sockets EXCEPT ![w].pc = "manager_closed", ![w].open = FALSE,
                                             ![w].game_code = c]
              /\ UNCHANGED manager_connections
         ELSE /\ manager_connections' = connect_manager(manager_connections, c, w)
              /\ sockets' = [sockets EXCEPT ![w].pc = "manager", ![w].game_code = c]
    /\ UNCHANGED <<engine_vars, team_connections, answer_submitted, simple_vars, handler_vars>>

\* manager_websocket leaves: WebSocketDisconnect, the 30 s receive timeout or
\* a failed send, then the finally block
manager_websocket_finally(w) ==
    /\ sockets[w].pc = "manager"
    /\ sockets' = [sockets EXCEPT ![w].pc = "manager_closed", ![w].open = FALSE]
    /\ manager_connections' =
           disconnect_manager(manager_connections, sockets[w].game_code, w)
    /\ UNCHANGED <<engine_vars, team_connections, answer_submitted, simple_vars, handler_vars>>

\* POST /api/game/{game_code}/round/start up to the await of the song catalog
start_round_endpoint_call(c) ==
    /\ start_round_call(c)
    /\ UNCHANGED <<complete_vars, simple_vars, handler_vars>>

\* POST /api/game/{game_code}/round/start after the await: round_started to
\* everyone when a round was started
start_round_endpoint_return(call, song) ==
    /\ start_round_return(call, song)
    /\ IF last'.ok THEN broadcast_to_all(call.code)
                   ELSE UNCHANGED <<team_connections, manager_connections>>
    /\ UNCHANGED <<sockets, answer_submitted, simple_vars, handler_vars>>

\* POST /api/game/{game_code}/buzzer: buzzer_locked to everyone on success
buzzer_press_endpoint(c, t, r) ==
    /\ register_buzzer_press(c, t, r)
    /\ IF last'.ok THEN broadcast_to_all(c)
                   ELSE UNCHANGED <<team_connections, manager_connections>>
    /\ UNCHANGED <<sockets, answer_submitted, simple_vars, handler_vars>>

submit_answer_endpoint_to_everyone(c, t, ans) ==
    /\ submit_answer(c, t, ans)
    /\ IF last'.ok
         THEN \E failed \in SUBSET DeadManagers(manager_connections, c, sockets) :
                  /\ manager_connections' =
                         broadcast_to_managers(manager_connections, c, failed)
                  /\ answer_submitted' =
                         answer_submitted
                             \cup (Managers(manager_connections, c) \ failed)
                             \cup {team_connections[c][n] : n \in get_teams_list(team_connections, c)}
         ELSE UNCHANGED <<manager_connections, answer_submitted>>
    /\ UNCHANGED <<team_connections, sockets, simple_vars, handler_vars>>

\* POST /api/game/{game_code}/answer: answer_submitted through
\* broadcast_to_managers on success
submit_answer_endpoint(c, t, ans) ==
    /\ submit_answer(c, t, ans)
    /\ IF last'.ok
         THEN \E failed \in SUBSET DeadManagers(manager_connections, c, sockets) :
                  /\ manager_connections' =
                         broadcast_to_managers(manager_connections, c, failed)
                  /\ answer_submitted' =
                         answer_submitted \cup (Managers(manager_connections, c) \ failed)
         ELSE UNCHANGED <<manager_connections, answer_submitted>>
    /\ UNCHANGED <<team_connections, sockets, simple_vars, handler_vars>>

\* ------------------------------------------------- main_simple: game rooms
\* kicked is history: kick_team closed this socket
FreeSimpleSocket ==
    [pc |-> "free", game_code |-> None, team_name |-> None, open |-> TRUE, stale |-> FALSE,
     kicked |-> FALSE]

\* GameRoom.__init__
GameRoom(settings) ==
    [settings |-> settings, status |-> "waiting", team_connections |-> <<>>,
     current_round |-> None, buzzed_team |-> None,
     locked_components |-> [song_name |-> FALSE, artist_content |-> FALSE],
     team_scores |-> <<>>, round_number |-> 0,
     evaluated |-> 0,    \* history: the answers evaluated in this room
     buzzer_locked |-> 0]    \* history: the buzzer_locked events of this round

\* MemoryStorage.create_game. The handlers that joined the room replaced here
\* keep the old GameRoom object in their local variable `room`.
storage_create_game(c, settings) ==
    /\ rooms' = Put(rooms, c, GameRoom(settings))
    /\ simple_sockets' =
           [w \in DOMAIN simple_sockets |->
               IF simple_sockets[w].game_code = c /\ simple_sockets[w].pc \in {"acking", "loop"}
                 THEN [simple_sockets[w] EXCEPT !.stale = TRUE]
                 ELSE simple_sockets[w]]
    /\ UNCHANGED <<engine_vars, complete_vars, handler_vars>>

\* GameRoom.add_team: the new team_connections, or the old ones on refusal
add_team(room, t, w) ==
    IF t \in DOMAIN room.team_connections
      THEN room
      ELSE [room EXCEPT !.team_connections = Put(@, t, w)]

\* GameRoom.remove_team
remove_team(room, t) == [room EXCEPT !.team_connections = Drop(@, {t})]

SimpleDeadTeams(room, socks) ==
    {t \in DOMAIN room.team_connections : ~socks[room.team_connections[t]].open}

\* websocket_team_endpoint from the team_join message to the await of its
\* first send: the ack, or the error message of a missing room ("leaving") or
\* of a name that is taken ("name_taken")
websocket_team_endpoint_join(w, c, t) ==
    /\ simple_sockets[w].pc = "free"
    /\ IF c \notin DOMAIN rooms \/ t \in DOMAIN rooms[c].team_connections
         THEN /\ simple_sockets' = [simple_sockets EXCEPT
                     ![w].pc = IF c \notin DOMAIN rooms THEN "leaving" ELSE "name_taken",
                     ![w].game_code = c, ![w].team_name = t]
              /\ UNCHANGED rooms
         ELSE /\ rooms' = [rooms EXCEPT ![c] = add_team(@, t, w)]
              /\ simple_sockets' = [simple_sockets EXCEPT
                     ![w].pc = "acking", ![w].game_code = c, ![w].team_name = t]
    /\ UNCHANGED <<engine_vars, complete_vars, handler_vars>>

\* the finally block of websocket_team_endpoint: the room is read again from
\* the storage, the team is removed by name, team_left is broadcast
websocket_team_endpoint_cleanup(w, socks) ==
    LET c == socks[w].game_code
    IN IF c \notin DOMAIN rooms
         THEN UNCHANGED rooms
         ELSE \E failed \in SUBSET SimpleDeadTeams(remove_team(rooms[c], socks[w].team_name),
                                                  socks) :
                  rooms' = [rooms EXCEPT ![c].team_connections =
                               Drop(remove_team(rooms[c], socks[w].team_name).team_connections,
                                    failed)]

\* websocket_team_endpoint from the send of the ack to the message loop: the
\* ack, then broadcast_team_update on the room the team joined
websocket_team_endpoint_ack(w) ==
    /\ simple_sockets[w].pc = "acking"
    /\ \/ /\ simple_sockets' = [simple_sockets EXCEPT ![w].pc = "loop"]
          /\ IF simple_sockets[w].stale
               THEN UNCHANGED rooms
               ELSE \E failed \in SUBSET SimpleDeadTeams(rooms[simple_sockets[w].game_code],
                                                        simple_sockets) :
                        rooms' = [rooms EXCEPT
                                     ![simple_sockets[w].game_code].team_connections =
                                         Drop(@, failed)]
       \/ /\ ~simple_sockets[w].open
          /\ simple_sockets' = [simple_sockets EXCEPT ![w].pc = "closed"]
          /\ websocket_team_endpoint_cleanup(w, simple_sockets')
    /\ UNCHANGED <<engine_vars, complete_vars, handler_vars>>

simple_client_close(w) ==
    /\ simple_sockets[w].pc \in {"acking", "loop"}
    /\ simple_sockets[w].open
    /\ simple_sockets' = [simple_sockets EXCEPT ![w].open = FALSE]
    /\ UNCHANGED <<engine_vars, complete_vars, handler_vars, rooms>>

\* websocket_team_endpoint leaves: team_leave, WebSocketDisconnect, the 30 s
\* receive timeout or the return after an error message, then the finally block
websocket_team_endpoint_finally(w) ==
    /\ simple_sockets[w].pc \in {"loop", "leaving", "name_taken"}
    /\ simple_sockets' = [simple_sockets EXCEPT ![w].pc = "closed", ![w].open = FALSE]
    /\ websocket_team_endpoint_cleanup(w, simple_sockets')
    /\ UNCHANGED <<engine_vars, complete_vars, handler_vars>>

\* ------------------------------------------- main_simple: the manager's game
\* broadcast_to_all of room r, stored under c afterwards: the teams whose send
\* raised are removed
room_broadcast_to_all(c, r) ==
    \E failed \in SUBSET SimpleDeadTeams(r, simple_sockets) :
        rooms' = [rooms EXCEPT ![c] = [r EXCEPT !.team_connections = Drop(@, failed)]]

\* dict.get(team, 0)
score_get(team_scores, t) == IF t \in DOMAIN team_scores THEN team_scores[t] ELSE 0

UnlockedComponents == [song_name |-> FALSE, artist_content |-> FALSE]

\* websocket_manager_endpoint, message start_game. The manager handlers below
\* act on the room the storage holds under the manager's game code.
manager_start_game(c) ==
    /\ c \in DOMAIN rooms
    /\ room_broadcast_to_all(c,
           [rooms[c] EXCEPT
               !.status = "playing",
               !.team_scores = [t \in DOMAIN @ \cup DOMAIN rooms[c].team_connections |->
                                   IF t \in DOMAIN rooms[c].team_connections THEN 0 ELSE @[t]]])
    /\ UNCHANGED <<engine_vars, complete_vars, handler_vars, simple_sockets>>

\* websocket_manager_endpoint, message start_round
manager_start_round(c, song_data) ==
    /\ c \in DOMAIN rooms
    /\ rooms[c].round_number < MaxSimpleRounds
    /\ room_broadcast_to_all(c,
           [rooms[c] EXCEPT !.round_number = @ + 1,
                            !.current_round = song_data,
                            !.buzzed_team = None,
                            !.locked_components = UnlockedComponents,
                            !.buzzer_locked = 0])
    /\ UNCHANGED <<engine_vars, complete_vars, handler_vars, simple_sockets>>

\* a press that is accepted whichever team holds the buzzer
buzz_pressed_over_the_holder(w) ==
    /\ simple_sockets[w].pc = "loop"
    /\ LET c == simple_sockets[w].game_code
       IN IF simple_sockets[w].stale
             \/ rooms[c].status # "playing"
            THEN UNCHANGED rooms
            ELSE /\ rooms[c].buzzer_locked < MaxBuzzes
                 /\ room_broadcast_to_all(c,
                        [rooms[c] EXCEPT !.buzzed_team = simple_sockets[w].team_name,
                                         !.buzzer_locked = @ + 1])
    /\ UNCHANGED <<engine_vars, complete_vars, handler_vars, simple_sockets>>

\* websocket_team_endpoint, message buzz_pressed; the handler of a replaced
\* room acts on the room object it joined, which the storage no longer holds
buzz_pressed(w) ==
    /\ simple_sockets[w].pc = "loop"
    /\ LET c == simple_sockets[w].game_code
       IN IF simple_sockets[w].stale
             \/ rooms[c].buzzed_team # None
             \/ rooms[c].status # "playing"
            THEN UNCHANGED rooms
            ELSE /\ rooms[c].buzzer_locked < MaxBuzzes
                 /\ room_broadcast_to_all(c,
                        [rooms[c] EXCEPT !.buzzed_team = simple_sockets[w].team_name,
                                         !.buzzer_locked = @ + 1])
    /\ UNCHANGED <<engine_vars, complete_vars, handler_vars, simple_sockets>>

\* the scores after evaluate_answer
evaluated_scores(team_scores, t, song_correct, artist_correct, wrong_answer) ==
    LET s1 == IF song_correct THEN Put(team_scores, t, score_get(team_scores, t) + 10)
                              ELSE team_scores
        s2 == IF artist_correct THEN Put(s1, t, score_get(s1, t) + 5) ELSE s1
    IN IF wrong_answer THEN Put(s2, t, score_get(s2, t) - 2) ELSE s2

\* websocket_manager_endpoint, message evaluate_answer
manager_evaluate_answer(c, song_correct, artist_correct, wrong_answer) ==
    /\ c \in DOMAIN rooms
    /\ IF ~Truthy(rooms[c].buzzed_team)
         THEN UNCHANGED rooms
         ELSE /\ rooms[c].evaluated < MaxEvaluations
              /\ room_broadcast_to_all(c,
                     [rooms[c] EXCEPT
                         !.locked_components =
                             [song_name |-> @.song_name \/ song_correct,
                              artist_content |-> @.artist_content \/ artist_correct],
                         !.team_scores =
                             evaluated_scores(@, rooms[c].buzzed_team,
                                              song_correct, artist_correct, wrong_answer),
                         !.buzzed_team = None,
                         !.evaluated = @ + 1])
    /\ UNCHANGED <<engine_vars, complete_vars, handler_vars, simple_sockets>>

\* websocket_manager_endpoint, message restart_song
manager_restart_song(c) ==
    /\ c \in DOMAIN rooms
    /\ room_broadcast_to_all(c, [rooms[c] EXCEPT !.buzzed_team = None])
    /\ UNCHANGED <<engine_vars, complete_vars, handler_vars, simple_sockets>>

manager_skip_round_keeping_buzz(c) ==
    /\ c \in DOMAIN rooms
    /\ room_broadcast_to_all(c,
           [rooms[c] EXCEPT !.locked_components = UnlockedComponents])
    /\ UNCHANGED <<engine_vars, complete_vars, handler_vars, simple_sockets>>

\* websocket_manager_endpoint, message skip_round
manager_skip_round(c) ==
    /\ c \in DOMAIN rooms
    /\ room_broadcast_to_all(c,
           [rooms[c] EXCEPT !.buzzed_team = None,
                            !.locked_components = UnlockedComponents])
    /\ UNCHANGED <<engine_vars, complete_vars, handler_vars, simple_sockets>>

\* websocket_manager_endpoint, message end_game
manager_end_game(c) ==
    /\ c \in DOMAIN rooms
    /\ room_broadcast_to_all(c, [rooms[c] EXCEPT !.status = "finished"])
    /\ UNCHANGED <<engine_vars, complete_vars, handler_vars, simple_sockets>>

\* kick_team of main_simple (POST /api/game/{game_code}/kick/{team_name}): the
\* kicked message and the close of the team's socket, remove_team by name,
\* broadcast_team_update. The handler of the closed socket stays in its
\* message loop until its receive raises. The two sends are taken to return
\* before another handler runs.
kick_team(c, t) ==
    /\ c \in DOMAIN rooms
    /\ t \in DOMAIN rooms[c].team_connections
    /\ simple_sockets' = [simple_sockets EXCEPT
           ![rooms[c].team_connections[t]].open = FALSE,
           ![rooms[c].team_connections[t]].kicked = TRUE]
    /\ room_broadcast_to_all(c, remove_team(rooms[c], t))
    /\ UNCHANGED <<engine_vars, complete_vars, handler_vars>>

\* ------------------------------------------- handlers: ConnectionManager
\* active_connections[game_code] is a Python dict: a table of slots in
\* insertion order. A pop leaves a deleted slot behind (the table of a dict of
\* up to five entries is never rebuilt), and an iterator walks the slots by
\* position. obj tells the dict objects of one game code apart: disconnect
\* deletes a dict that became empty and connect_team creates a new one.
Deleted == 0

\* exclude_connection=None, and no send in progress
NoConnection == 0

Live(d) == {d.slots[i] : i \in DOMAIN d.slots} \ {Deleted}

\* len() of the dict
ma_used(d) == Cardinality(Live(d))

\* a deleted slot of the dict team_connections[game_code]
DeletedTeam == [team_name |-> None, connection_id |-> NoConnection]

\* the items of team_connections[game_code]
LiveTeams(d) == {d.slots[i] : i \in DOMAIN d.slots} \ {DeletedTeam}

\* the keys of team_connections[game_code]
TeamKeys(d) == {e.team_name : e \in LiveTeams(d)}

\* team_connections[game_code][team_name] = connection_id: the value of a key
\* the dict has is replaced in its slot, a new key takes the next slot
team_connections_set(d, t, id) ==
    IF t \in TeamKeys(d)
      THEN [d EXCEPT !.slots =
               [i \in DOMAIN @ |->
                   IF @[i].team_name = t
                     THEN [team_name |-> t, connection_id |-> id] ELSE @[i]]]
      ELSE [d EXCEPT !.slots = Append(@, [team_name |-> t, connection_id |-> id])]

FreeHandlerSocket == [pc |-> "free", game_code |-> None, team_name |-> None, loop |-> FALSE]

\* ConnectionManager.connection_registry: the connection ids registered. The
\* connection id holds id(websocket), so it is the websocket here; game_code
\* and team_name of the websocket are the tuple the registry keeps.
connection_registry(socks) == {w \in DOMAIN socks : socks[w].pc = "registered"}

\* what the ConnectionManager call handled last was, the connection id or
\* the timeout it was called with, and what it returned
CmRet(op, arg, result) == [op |-> op, arg |-> arg, result |-> result]

\* ConnectionManager.connect_team after websocket.accept(), as it stores into
\* active_connections and team_connections. The dicts of the game code are
\* made when active_connections has none; with a dict in active_connections
\* and none in team_connections (a manager connected first) the store into
\* team_connections raises KeyError after the store into active_connections.
connect_team_stores(ac, tc, w, c, t) ==
    LET new == c \notin DOMAIN ac
        ac1 == IF new THEN Put(ac, c, [obj |-> w, slots |-> <<>>]) ELSE ac
        tc1 == IF new THEN Put(tc, c, [obj |-> w, slots |-> <<>>]) ELSE tc
    IN [active_connections |-> [ac1 EXCEPT ![c].slots = Append(@, w)],
        team_connections |-> IF c \in DOMAIN tc1
                               THEN [tc1 EXCEPT ![c] = team_connections_set(@, t, w)]
                               ELSE tc1,
        raised |-> c \notin DOMAIN tc1]

\* ConnectionManager.connect_team: past the stores, the registry and last_ping
cm_connect_team(w, c, t) ==
    LET s == connect_team_stores(active_connections, cm_team_connections, w, c, t)
    IN /\ handler_sockets[w].pc = "free"
       /\ active_connections' = s.active_connections
       /\ cm_team_connections' = s.team_connections
       /\ handler_sockets' = [handler_sockets EXCEPT
              ![w] = [pc |-> IF s.raised THEN "raised" ELSE "registered",
                      game_code |-> c, team_name |-> t, loop |-> FALSE]]
       /\ last_ping' = IF s.raised THEN last_ping ELSE Put(last_ping, w, clock)
       /\ cm_last' = CmRet("connect_team", w, ~s.raised)
       /\ UNCHANGED <<engine_vars, complete_vars, simple_vars, cm_manager_connections,
                      clock, broadcast, teams_only, personal, dynamodb_vars>>

\* ConnectionManager.connect_manager after websocket.accept(); the endpoint of
\* the manager goes on to its message loop
cm_connect_manager(w, c) ==
    /\ handler_sockets[w].pc = "free"
    /\ active_connections' =
           IF c \in DOMAIN active_connections
             THEN [active_connections EXCEPT ![c].slots = Append(@, w)]
             ELSE Put(active_connections, c, [obj |-> w, slots |-> <<w>>])
    /\ cm_manager_connections' = Put(cm_manager_connections, c, w)
    /\ handler_sockets' = [handler_sockets EXCEPT
           ![w] = [pc |-> "registered", game_code |-> c, team_name |-> "manager",
                  loop |-> TRUE]]
    /\ last_ping' = Put(last_ping, w, clock)
    /\ cm_last' = CmRet("connect_manager", w, TRUE)
    /\ UNCHANGED <<engine_vars, complete_vars, simple_vars, cm_team_connections,
                   clock, broadcast, teams_only, personal, dynamodb_vars>>

\* ConnectionManager.disconnect for each connection id of K, as it acts on
\* active_connections: an id missing from the registry is left alone, the
\* others are popped, and a dict left empty is deleted
disconnect(ac, socks, K) ==
    LET gone == K \cap connection_registry(socks)
        popped == [c \in DOMAIN ac |->
                      [ac[c] EXCEPT !.slots =
                          [i \in DOMAIN @ |->
                              IF @[i] \in gone /\ socks[@[i]].game_code = c
                                THEN Deleted ELSE @[i]]]]
    IN Drop(popped, {c \in DOMAIN popped : Live(popped[c]) = {}})

\* a disconnect that deletes the team name in the dict of every game code
disconnect_team_connections_every_room(tc, socks, K) ==
    LET gone == K \cap connection_registry(socks)
        deleted == [c \in DOMAIN tc |->
                       [tc[c] EXCEPT !.slots =
                           [i \in DOMAIN @ |->
                               IF \E k \in gone : socks[k].team_name = @[i].team_name
                                 THEN DeletedTeam ELSE @[i]]]]
    IN Drop(deleted, {c \in DOMAIN deleted : LiveTeams(deleted[c]) = {}})

\* ConnectionManager.disconnect as it acts on team_connections: the key
\* team_name of the registry tuple is deleted, whichever connection id it
\* holds, and a dict left empty is deleted
disconnect_team_connections(tc, socks, K) ==
    LET gone == K \cap connection_registry(socks)
        deleted == [c \in DOMAIN tc |->
                       [tc[c] EXCEPT !.slots =
                           [i \in DOMAIN @ |->
                               IF \E k \in gone : /\ socks[k].game_code = c
                                                  /\ socks[k].team_name = @[i].team_name
                                 THEN DeletedTeam ELSE @[i]]]]
    IN Drop(deleted, {c \in DOMAIN deleted : LiveTeams(deleted[c]) = {}})

\* ConnectionManager.disconnect as it acts on manager_connections: the entry
\* of the game code is deleted when it holds the connection id
disconnect_manager_connections(mc, socks, K) ==
    Drop(mc, {c \in DOMAIN mc : /\ mc[c] \in K \cap connection_registry(socks)
                                /\ socks[mc[c]].game_code = c})

\* ConnectionManager.disconnect as it acts on last_ping, past the early
\* return for an id missing from the registry
disconnect_last_ping(lp, socks, K) == Drop(lp, K \cap connection_registry(socks))

\* ConnectionManager.disconnect as it acts on the registry
unregister(socks, K) ==
    [w \in DOMAIN socks |->
        IF w \in K /\ socks[w].pc = "registered"
          THEN [socks[w] EXCEPT !.pc = "closed"] ELSE socks[w]]

\* ConnectionManager.disconnect for each connection id of K, on the indexes
disconnect_indexes(K) ==
    /\ active_connections' = disconnect(active_connections, handler_sockets, K)
    /\ cm_team_connections' =
           disconnect_team_connections(cm_team_connections, handler_sockets, K)
    /\ cm_manager_connections' =
           disconnect_manager_connections(cm_manager_connections, handler_sockets, K)
    /\ last_ping' = disconnect_last_ping(last_ping, handler_sockets, K)

\* disconnect(connection_id) as the finally block of a websocket endpoint
\* calls it, whether or not the id is still in the registry; the handler of
\* the websocket ends
cm_disconnect(w) ==
    /\ handler_sockets[w].pc \in {"registered", "closed"}
    /\ disconnect_indexes({w})
    /\ handler_sockets' = [handler_sockets EXCEPT ![w].pc = "ended"]
    /\ cm_last' = CmRet("disconnect", w, w \in connection_registry(handler_sockets))
    /\ UNCHANGED <<engine_vars, complete_vars, simple_vars, clock, broadcast,
                   teams_only, personal, dynamodb_vars>>

\* ConnectionManager.update_ping, called by the message loop of an endpoint
\* for every message its websocket receives: no look at the registry
update_ping(w) ==
    /\ handler_sockets[w].pc \in {"registered", "closed"}
    /\ handler_sockets[w].loop
    /\ last_ping' = Put(last_ping, w, clock)
    /\ cm_last' = CmRet("update_ping", w, TRUE)
    /\ UNCHANGED <<engine_vars, complete_vars, simple_vars, active_connections,
                   cm_team_connections, cm_manager_connections, handler_sockets,
                   clock, broadcast, teams_only, personal, dynamodb_vars>>

\* datetime.now() moves on
tick ==
    /\ clock < MaxClock
    /\ clock' = clock + 1
    /\ cm_last' = CmRet("tick", NoConnection, TRUE)
    /\ UNCHANGED <<engine_vars, complete_vars, simple_vars, active_connections,
                   cm_team_connections, cm_manager_connections, handler_sockets,
                   last_ping, broadcast, teams_only, personal, dynamodb_vars>>

\* the reaper with a heartbeat that is exactly timeout old counted as stale
stale_connections_at_timeout(lp, current_time, timeout_seconds) ==
    {id \in DOMAIN lp : current_time - lp[id] >= timeout_seconds}

\* the ids cleanup_stale_connections collects in stale_connections
stale_connections(lp, current_time, timeout_seconds) ==
    {id \in DOMAIN lp : current_time - lp[id] > timeout_seconds}

\* ConnectionManager.cleanup_stale_connections: disconnect does not suspend,
\* so the two loops run in one piece
cleanup_stale_connections(timeout_seconds) ==
    LET stale == stale_connections(last_ping, clock, timeout_seconds)
    IN /\ disconnect_indexes(stale)
       /\ handler_sockets' = unregister(handler_sockets, stale)
       /\ cm_last' = CmRet("cleanup_stale_connections", timeout_seconds, TRUE)
       /\ UNCHANGED <<engine_vars, complete_vars, simple_vars, clock, broadcast,
                      teams_only, personal, dynamodb_vars>>

NoSend == [pc |-> "idle", connection_id |-> NoConnection]

\* ConnectionManager.send_personal_message from the call to the await of
\* send_text: False at once for an id missing from the registry
send_personal_message_call(id) ==
    /\ personal.pc = "idle"
    /\ IF id \in connection_registry(handler_sockets)
         THEN /\ personal' = [pc |-> "sending", connection_id |-> id]
              /\ cm_last' = CmRet("send_text", id, TRUE)
         ELSE /\ personal' = NoSend
              /\ cm_last' = CmRet("send_personal_message", id, FALSE)
    /\ UNCHANGED <<engine_vars, complete_vars, simple_vars, active_connections,
                   cm_team_connections, cm_manager_connections, handler_sockets,
                   last_ping, clock, broadcast, teams_only, dynamodb_vars>>

\* ConnectionManager.send_personal_message resumed after send_text: True
\* when the send went through; when it raised, disconnect and False
send_personal_message_resume(failed) ==
    /\ personal.pc = "sending"
    /\ personal' = NoSend
    /\ disconnect_indexes(IF failed THEN {personal.connection_id} ELSE {})
    /\ handler_sockets' =
           unregister(handler_sockets, IF failed THEN {personal.connection_id} ELSE {})
    /\ cm_last' = CmRet("send_personal_message", personal.connection_id, ~failed)
    /\ UNCHANGED <<engine_vars, complete_vars, simple_vars, clock, broadcast,
                   teams_only, dynamodb_vars>>

NoBroadcast ==
    [pc |-> "idle", game_code |-> None, exclude_connection |-> NoConnection,
     obj |-> 0, di_used |-> 0, di_pos |-> 0, target |-> NoConnection,
     disconnected_connections |-> {}, sent |-> {}, initial |-> {}]

\* the slots the iterator of broadcast b walks: those of the dict object it
\* was made from, which is empty once disconnect has deleted it
IteratedSlots(b, ac) ==
    IF b.game_code \in DOMAIN ac /\ ac[b.game_code].obj = b.obj
      THEN ac[b.game_code].slots ELSE <<>>

\* the for loop of broadcast_to_game from one await to the next. next() on the
\* dict iterator first compares the size of the dict with the size it had
\* when the iterator was made and raises RuntimeError when they differ; then
\* it skips the deleted slots. The loop skips exclude_connection and stops at
\* the await of the next send_text.
RECURSIVE for_loop(_, _)
for_loop(b, ac) ==
    LET slots == IteratedSlots(b, ac)
        rest == {i \in DOMAIN slots : i > b.di_pos /\ slots[i] # Deleted}
    IN IF Cardinality({i \in DOMAIN slots : slots[i] # Deleted}) # b.di_used
         THEN [b EXCEPT !.pc = "raised", !.target = NoConnection]
         ELSE IF rest = {}
         THEN [b EXCEPT !.pc = "exhausted", !.target = NoConnection]
         ELSE LET i == CHOOSE i \in rest : \A j \in rest : i <= j
              IN IF slots[i] = b.exclude_connection
                   THEN for_loop([b EXCEPT !.di_pos = i], ac)
                   ELSE [b EXCEPT !.pc = "sending", !.di_pos = i, !.target = slots[i]]

\* broadcast_to_game after a pass of its loop: suspended in a send, ended by
\* the RuntimeError, or past the loop, where the connections whose send
\* raised are disconnected
after_loop(b) ==
    IF b.pc = "exhausted"
      THEN /\ broadcast' = [b EXCEPT !.pc = "returned"]
           /\ disconnect_indexes(b.disconnected_connections)
           /\ handler_sockets' = unregister(handler_sockets, b.disconnected_connections)
      ELSE /\ broadcast' = b
           /\ UNCHANGED <<active_connections, cm_team_connections,
                          cm_manager_connections, last_ping, handler_sockets>>

\* broadcast_to_game from the call to its first await
broadcast_to_game_call(c, exclude) ==
    /\ broadcast.pc \in {"idle", "returned", "raised"}
    /\ IF c \notin DOMAIN active_connections
         THEN /\ broadcast' = [NoBroadcast EXCEPT !.pc = "returned", !.game_code = c,
                                                  !.exclude_connection = exclude]
              /\ UNCHANGED <<active_connections, cm_team_connections,
                             cm_manager_connections, last_ping, handler_sockets>>
         ELSE after_loop(for_loop(
                  [NoBroadcast EXCEPT !.pc = "iterating",
                                      !.game_code = c,
                                      !.exclude_connection = exclude,
                                      !.obj = active_connections[c].obj,
                                      !.di_used = ma_used(active_connections[c]),
                                      !.initial = Live(active_connections[c])],
                  active_connections))
    /\ cm_last' = CmRet("broadcast_to_game", NoConnection, TRUE)
    /\ UNCHANGED <<engine_vars, complete_vars, simple_vars, clock, teams_only,
                   personal, dynamodb_vars>>

\* broadcast_to_game resumed after send_text: the send went through or raised
\* (the client has gone away), then the loop goes on
broadcast_to_game_resume(failed) ==
    /\ broadcast.pc = "sending"
    /\ after_loop(for_loop(
           IF failed
             THEN [broadcast EXCEPT !.disconnected_connections = @ \cup {broadcast.target}]
             ELSE [broadcast EXCEPT !.sent = @ \cup {broadcast.target}],
           active_connections))
    /\ cm_last' = CmRet("broadcast_to_game", NoConnection, TRUE)
    /\ UNCHANGED <<engine_vars, complete_vars, simple_vars, clock, teams_only,
                   personal, dynamodb_vars>>

\* the slots the iterator of broadcast_to_teams_only walks
IteratedTeams(b, tc) ==
    IF b.game_code \in DOMAIN tc /\ tc[b.game_code].obj = b.obj
      THEN tc[b.game_code].slots ELSE <<>>

\* the for loop of broadcast_to_teams_only from one await to the next: next()
\* on the iterator of team_connections[game_code].items() raises RuntimeError
\* when the size of the dict differs from the size it had when the iterator
\* was made; send_personal_message returns at once for an id missing from the
\* registry and suspends in send_text for the others
RECURSIVE teams_for_loop(_, _, _)
teams_for_loop(b, tc, socks) ==
    LET slots == IteratedTeams(b, tc)
        live == {i \in DOMAIN slots : slots[i] # DeletedTeam}
        rest == {i \in live : i > b.di_pos}
    IN IF Cardinality(live) # b.di_used
         THEN [b EXCEPT !.pc = "raised", !.target = NoConnection]
         ELSE IF rest = {}
         THEN [b EXCEPT !.pc = "returned", !.target = NoConnection]
         ELSE LET i == CHOOSE i \in rest : \A j \in rest : i <= j
              IN IF slots[i].connection_id \in connection_registry(socks)
                   THEN [b EXCEPT !.pc = "sending", !.di_pos = i,
                                  !.target = slots[i].connection_id]
                   ELSE teams_for_loop([b EXCEPT !.di_pos = i], tc, socks)

\* broadcast_to_teams_only from the call to its first await
broadcast_to_teams_only_call(c) ==
    /\ teams_only.pc \in {"idle", "returned", "raised"}
    /\ teams_only' =
           IF c \notin DOMAIN cm_team_connections
             THEN [NoBroadcast EXCEPT !.pc = "returned", !.game_code = c]
             ELSE teams_for_loop(
                      [NoBroadcast EXCEPT
                          !.pc = "iterating",
                          !.game_code = c,
                          !.obj = cm_team_connections[c].obj,
                          !.di_used = Cardinality(LiveTeams(cm_team_connections[c])),
                          !.initial = {e.connection_id : e \in LiveTeams(cm_team_connections[c])}],
                      cm_team_connections, handler_sockets)
    /\ cm_last' = CmRet("broadcast_to_teams_only", NoConnection, TRUE)
    /\ UNCHANGED <<engine_vars, complete_vars, simple_vars, active_connections,
                   cm_team_connections, cm_manager_connections, handler_sockets,
                   last_ping, clock, broadcast, personal, dynamodb_vars>>

\* broadcast_to_teams_only resumed after the send_text of its
\* send_personal_message: when the send raised, send_personal_message
\* disconnects the connection; then the loop goes on, over the dict as
\* disconnect left it
broadcast_to_teams_only_resume(failed) ==
    LET K == IF failed THEN {teams_only.target} ELSE {}
    IN /\ teams_only.pc = "sending"
       /\ disconnect_indexes(K)
       /\ handler_sockets' = unregister(handler_sockets, K)
       /\ teams_only' = teams_for_loop(
              IF failed
                THEN [teams_only EXCEPT !.disconnected_connections = @ \cup K]
                ELSE [teams_only EXCEPT !.sent = @ \cup {teams_only.target}],
              disconnect_team_connections(cm_team_connections, handler_sockets, K),
              unregister(handler_sockets, K))
       /\ cm_last' = CmRet("broadcast_to_teams_only", NoConnection, TRUE)
       /\ UNCHANGED <<engine_vars, complete_vars, simple_vars, clock, broadcast,
                      personal, dynamodb_vars>>

\* ----------------------------- handlers: websocket_team_endpoint of main.py
\* TeamHandler.max_teams_per_game
max_teams_per_game == 8

\* ConnectionManager.get_teams_in_game
get_teams_in_game(tc, c) == IF c \in DOMAIN tc THEN TeamKeys(tc[c]) ELSE {}

\* TeamHandler.handle_team_join for a name that passes validate_team_name:
\* whether the join succeeds, and the DynamoDB tables as it leaves them. tc is
\* team_connections as connect_team left it.
handle_team_join(gr, tt, tc, c, t, id) ==
    LET existing_teams == get_teams_in_game(tc, c)
        game_room == IF c \in DOMAIN gr THEN gr[c]
                     ELSE [teams |-> <<>>, game_state |-> "waiting",
                           max_teams |-> max_teams_per_game]
        success == /\ t \notin existing_teams
                   /\ Cardinality(existing_teams) < max_teams_per_game
                   /\ game_room.game_state = "waiting"
                   /\ \A i \in DOMAIN game_room.teams : game_room.teams[i] # t
                   /\ Len(game_room.teams) < game_room.max_teams
    IN [success |-> success,
        game_rooms |-> IF success
                         THEN Put(gr, c, [game_room EXCEPT !.teams = Append(@, t)])
                         ELSE gr,
        team_table |-> IF success
                         THEN Put(tt, <<c, t>>, [connection_id |-> id,
                                                 connection_status |-> "active"])
                         ELSE tt]

\* GameRoom.remove_team of models/team_models.py
room_remove_team(teams, t) ==
    IF \E i \in DOMAIN teams : teams[i] = t
      THEN LET i == CHOOSE i \in DOMAIN teams : teams[i] = t
           IN SubSeq(teams, 1, i - 1) \o SubSeq(teams, i + 1, Len(teams))
      ELSE teams

\* TeamHandler.handle_team_leave on the DynamoDB tables
handle_team_leave(c, t) ==
    /\ team_table' = Drop(team_table, {<<c, t>>})
    /\ game_rooms' = IF c \in DOMAIN game_rooms
                       THEN [game_rooms EXCEPT ![c].teams = room_remove_team(@, t)]
                       ELSE game_rooms

\* websocket_team_endpoint from the team_join message to its next await:
\* connect_team, then handle_team_join; a join that succeeded leads to the
\* message loop
main_team_endpoint_join(w, c, t) ==
    LET s == connect_team_stores(active_connections, cm_team_connections, w, c, t)
        j == handle_team_join(game_rooms, team_table, s.team_connections, c, t, w)
    IN /\ handler_sockets[w].pc = "free"
       /\ active_connections' = s.active_connections
       /\ cm_team_connections' = s.team_connections
       /\ handler_sockets' = [handler_sockets EXCEPT
              ![w] = [pc |-> IF s.raised THEN "raised" ELSE "registered",
                      game_code |-> c, team_name |-> t,
                      loop |-> ~s.raised /\ j.success]]
       /\ last_ping' = IF s.raised THEN last_ping ELSE Put(last_ping, w, clock)
       /\ game_rooms' = IF s.raised THEN game_rooms ELSE j.game_rooms
       /\ team_table' = IF s.raised THEN team_table ELSE j.team_table
       /\ cm_last' = CmRet("team_join", w, ~s.raised /\ j.success)
       /\ UNCHANGED <<engine_vars, complete_vars, simple_vars, cm_manager_connections,
                      clock, broadcast, teams_only, personal>>

\* the finally block of websocket_team_endpoint: disconnect(connection_id)
\* when connect_team returned an id, then handle_team_leave
main_team_endpoint_finally(w) ==
    /\ handler_sockets[w].pc \in {"registered", "closed", "raised"}
    /\ handler_sockets[w].team_name # "manager"
    /\ disconnect_indexes(IF handler_sockets[w].pc = "raised" THEN {} ELSE {w})
    /\ handler_sockets' = [handler_sockets EXCEPT ![w].pc = "ended"]
    /\ handle_team_leave(handler_sockets[w].game_code, handler_sockets[w].team_name)
    /\ cm_last' = CmRet("team_leave", w, TRUE)
    /\ UNCHANGED <<engine_vars, complete_vars, simple_vars, clock, broadcast,
                   teams_only, personal>>

\* ------------------------------------------------------------ specifications
Init ==
    /\ games = <<>>
    /\ sr_calls = EmptyBag
    /\ accepted = 0
    /\ penalties = 0
    /\ starts = 0
    /\ last = Ret("init", None, TRUE, None)
    /\ team_connections = <<>>
    /\ sockets = [w \in WebSockets |-> FreeSocket]
    /\ manager_connections = <<>>
    /\ answer_submitted = {}
    /\ rooms = <<>>
    /\ simple_sockets = [w \in SimpleWebSockets |-> FreeSimpleSocket]
    /\ active_connections = <<>>
    /\ handler_sockets = [w \in HandlerWebSockets |-> FreeHandlerSocket]
    /\ broadcast = NoBroadcast
    /\ cm_team_connections = <<>>
    /\ cm_manager_connections = <<>>
    /\ last_ping = <<>>
    /\ clock = 0
    /\ cm_last = CmRet("init", NoConnection, TRUE)
    /\ teams_only = NoBroadcast
    /\ personal = NoSend
    /\ game_rooms = <<>>
    /\ team_table = <<>>

\* the round engine alone: RoundManager behind the HTTP endpoints, with no
\* websocket connected, so that the broadcasts of the endpoints reach nobody
Next ==
    \/ \E c \in GameCodes, mr \in MaxRoundsInputs :
           create_game(c, mr) /\ UNCHANGED <<complete_vars, simple_vars, handler_vars>>
    \/ \E c \in GameCodes : start_game(c) /\ UNCHANGED <<complete_vars, simple_vars, handler_vars>>
    \/ \E c \in GameCodes : start_round_call(c) /\ UNCHANGED <<complete_vars, simple_vars, handler_vars>>
    \/ \E call \in BagToSet(sr_calls), song \in SongIds \cup {0} :
           start_round_return(call, song) /\ UNCHANGED <<complete_vars, simple_vars, handler_vars>>
    \/ \E c \in GameCodes, t \in PressNames, r \in ReactionTimes :
           register_buzzer_press(c, t, r) /\ UNCHANGED <<complete_vars, simple_vars, handler_vars>>
    \/ \E c \in GameCodes, t \in PressNames, ans \in AnswerInputs :
           submit_answer(c, t, ans) /\ UNCHANGED <<complete_vars, simple_vars, handler_vars>>
    \/ \E c \in GameCodes, e \in EvalInputs :
           evaluate_answer(c, e[1], e[2], e[3]) /\ UNCHANGED <<complete_vars, simple_vars, handler_vars>>
    \/ \E c \in GameCodes : handle_timeout(c) /\ UNCHANGED <<complete_vars, simple_vars, handler_vars>>
    \/ \E c \in GameCodes : end_game(c) /\ UNCHANGED <<complete_vars, simple_vars, handler_vars>>

Spec == Init /\ [][Next]_vars

\* main_complete: the team websockets, with the part of the round engine that
\* creates the game and moves its lifecycle state
NextTeams ==
    \/ \E c \in GameCodes, mr \in MaxRoundsInputs :
           create_game(c, mr) /\ UNCHANGED <<complete_vars, simple_vars, handler_vars>>
    \/ \E c \in GameCodes : start_game_endpoint(c)
    \/ \E c \in GameCodes : end_game_endpoint(c)
    \/ \E w \in WebSockets, c \in GameCodes, t \in JoinNames : team_websocket_join(w, c, t)
    \/ \E w \in WebSockets : team_websocket_ack(w)
    \/ \E w \in WebSockets : client_close(w)
    \/ \E w \in WebSockets : team_websocket_finally(w)

SpecTeams == Init /\ [][NextTeams]_vars

\* main_complete: a round up to the submitted answer, with websockets that
\* connect as teams or as managers
NextAnswers ==
    \/ \E c \in GameCodes, mr \in AnswerMaxRounds :
           create_game(c, mr) /\ UNCHANGED <<complete_vars, simple_vars, handler_vars>>
    \/ \E c \in GameCodes : start_game_endpoint(c)
    \/ \E c \in GameCodes : start_round_endpoint_call(c)
    \/ \E call \in BagToSet(sr_calls), song \in AnswerSongs \cup {0} :
           start_round_endpoint_return(call, song)
    \/ \E c \in GameCodes, t \in PressNames, r \in ReactionTimes :
           buzzer_press_endpoint(c, t, r)
    \/ \E c \in GameCodes, t \in PressNames, ans \in AnswerInputs :
           submit_answer_endpoint(c, t, ans)
    \/ \E w \in WebSockets, c \in GameCodes, t \in AnswerTeams : team_websocket_join(w, c, t)
    \/ \E w \in WebSockets : team_websocket_ack(w)
    \/ \E w \in WebSockets, c \in GameCodes : manager_websocket_connect(w, c)
    \/ \E w \in WebSockets : manager_websocket_finally(w)
    \/ \E w \in WebSockets : client_close(w)

SpecAnswers == Init /\ [][NextAnswers]_vars

\* main_simple: rooms and their team websockets
NextSimple ==
    \/ \E c \in GameCodes, mt \in MaxTeamsInputs :
           storage_create_game(c, [max_teams |-> mt])
    \/ \E w \in SimpleWebSockets, c \in GameCodes, t \in SimpleJoinNames :
           websocket_team_endpoint_join(w, c, t)
    \/ \E w \in SimpleWebSockets : websocket_team_endpoint_ack(w)
    \/ \E w \in SimpleWebSockets : simple_client_close(w)
    \/ \E w \in SimpleWebSockets : websocket_team_endpoint_finally(w)

SpecSimple == Init /\ [][NextSimple]_vars

\* main_simple: the game a manager runs over its websocket, with the teams
\* that join and buzz
NextManager ==
    \/ \E c \in GameCodes, mt \in MaxTeamsInputs :
           storage_create_game(c, [max_teams |-> mt])
    \/ \E w \in ManagerGameSockets, c \in GameCodes, t \in ManagerGameNames :
           websocket_team_endpoint_join(w, c, t)
    \/ \E w \in ManagerGameSockets : websocket_team_endpoint_ack(w)
    \/ \E w \in ManagerGameSockets : buzz_pressed(w)
    \/ \E c \in GameCodes : manager_start_game(c)
    \/ \E c \in GameCodes, song_data \in SimpleSongInputs : manager_start_round(c, song_data)
    \/ \E c \in GameCodes, e \in SimpleEvalInputs :
           manager_evaluate_answer(c, e[1], e[2], e[3])
    \/ \E c \in GameCodes : manager_restart_song(c)
    \/ \E c \in GameCodes : manager_skip_round(c)
    \/ \E c \in GameCodes : manager_end_game(c)

SpecManager == Init /\ [][NextManager]_vars

\* main_simple: a room joined under names that differ in letter case only
NextRoster ==
    \/ \E c \in GameCodes, mt \in MaxTeamsInputs :
           storage_create_game(c, [max_teams |-> mt])
    \/ \E w \in RosterSockets, c \in GameCodes, t \in RosterJoinNames :
           websocket_team_endpoint_join(w, c, t)
    \/ \E w \in RosterSockets : websocket_team_endpoint_ack(w)
    \/ \E w \in RosterSockets : simple_client_close(w)
    \/ \E w \in RosterSockets : websocket_team_endpoint_finally(w)

SpecRoster == Init /\ [][NextRoster]_vars

\* main_simple: a room whose teams join, leave and are kicked
NextKick ==
    \/ \E c \in GameCodes, mt \in MaxTeamsInputs :
           storage_create_game(c, [max_teams |-> mt])
    \/ \E w \in ManagerGameSockets, c \in GameCodes, t \in ManagerGameNames :
           websocket_team_endpoint_join(w, c, t)
    \/ \E w \in ManagerGameSockets : websocket_team_endpoint_ack(w)
    \/ \E w \in ManagerGameSockets : simple_client_close(w)
    \/ \E w \in ManagerGameSockets : websocket_team_endpoint_finally(w)
    \/ \E c \in GameCodes, t \in ManagerGameNames : kick_team(c, t)

SpecKick == Init /\ [][NextKick]_vars

\* the operations of RoundManager addressed to the game code c, as
\* NextIsolation takes them
RoundManagerCall(c) ==
    \/ \E mr \in AnswerMaxRounds : c \notin DOMAIN games /\ create_game(c, mr)
    \/ start_game(c)
    \/ sr_calls = EmptyBag /\ start_round_call(c)
    \/ \E call \in BagToSet(sr_calls), song \in IsolationSongs :
           call.code = c /\ start_round_return(call, song)
    \/ \E t \in IsolationTeams, r \in ReactionTimes : register_buzzer_press(c, t, r)
    \/ \E t \in IsolationTeams, ans \in AnswerInputs : submit_answer(c, t, ans)
    \/ \E e \in IsolationEvalInputs : evaluate_answer(c, e[1], e[2], e[3])
    \/ handle_timeout(c)
    \/ end_game(c)

\* the operations of the ConnectionManager of main.py addressed to the game
\* code c: by their argument, or by the registry tuple of the connection id
ConnectionManagerCall(c) ==
    \/ \E w \in IsolationSockets, t \in IsolationTeams : cm_connect_team(w, c, t)
    \/ \E w \in IsolationSockets : handler_sockets[w].game_code = c /\ cm_disconnect(w)
    \/ broadcast_to_game_call(c, NoConnection)
    \/ \E failed \in BOOLEAN : broadcast.game_code = c /\ broadcast_to_game_resume(failed)

\* two rooms at once. main_complete.py, which owns the RoundManager, and
\* main.py, which owns the ConnectionManager of handlers, are two
\* applications: a process runs one of them, so a behaviour has the games of
\* the two rooms or their connections. A game code is created once, and a
\* start_round waits for the catalog alone.
NextIsolation ==
    \/ \E c \in IsolationCodes, mr \in AnswerMaxRounds :
           /\ cm_last.op = "init" /\ c \notin DOMAIN games
           /\ create_game(c, mr)
           /\ UNCHANGED <<complete_vars, simple_vars, handler_vars>>
    \/ \E c \in IsolationCodes :
           /\ cm_last.op = "init"
           /\ start_game(c)
           /\ UNCHANGED <<complete_vars, simple_vars, handler_vars>>
    \/ \E c \in IsolationCodes :
           /\ cm_last.op = "init" /\ sr_calls = EmptyBag
           /\ start_round_call(c)
           /\ UNCHANGED <<complete_vars, simple_vars, handler_vars>>
    \/ \E call \in BagToSet(sr_calls), song \in IsolationSongs :
           /\ cm_last.op = "init"
           /\ start_round_return(call, song)
           /\ UNCHANGED <<complete_vars, simple_vars, handler_vars>>
    \/ \E c \in IsolationCodes, t \in IsolationTeams, r \in ReactionTimes :
           /\ cm_last.op = "init"
           /\ register_buzzer_press(c, t, r)
           /\ UNCHANGED <<complete_vars, simple_vars, handler_vars>>
    \/ \E c \in IsolationCodes, t \in IsolationTeams, ans \in AnswerInputs :
           /\ cm_last.op = "init"
           /\ submit_answer(c, t, ans)
           /\ UNCHANGED <<complete_vars, simple_vars, handler_vars>>
    \/ \E c \in IsolationCodes, e \in IsolationEvalInputs :
           /\ cm_last.op = "init"
           /\ evaluate_answer(c, e[1], e[2], e[3])
           /\ UNCHANGED <<complete_vars, simple_vars, handler_vars>>
    \/ \E c \in IsolationCodes :
           /\ cm_last.op = "init"
           /\ handle_timeout(c)
           /\ UNCHANGED <<complete_vars, simple_vars, handler_vars>>
    \/ \E c \in IsolationCodes :
           /\ cm_last.op = "init"
           /\ end_game(c)
           /\ UNCHANGED <<complete_vars, simple_vars, handler_vars>>
    \/ \E w \in IsolationSockets, c \in IsolationCodes, t \in IsolationTeams :
           /\ games = <<>> /\ last = Ret("init", None, TRUE, None)
           /\ cm_connect_team(w, c, t)
    \/ \E w \in IsolationSockets :
           /\ games = <<>> /\ last = Ret("init", None, TRUE, None)
           /\ cm_disconnect(w)
    \/ \E c \in IsolationCodes :
           /\ games = <<>> /\ last = Ret("init", None, TRUE, None)
           /\ broadcast_to_game_call(c, NoConnection)
    \/ \E failed \in BOOLEAN :
           /\ games = <<>> /\ last = Ret("init", None, TRUE, None)
           /\ broadcast_to_game_resume(failed)

SpecIsolation == Init /\ [][NextIsolation]_vars

\* handlers: the ConnectionManager of main.py, with one broadcast_to_game in
\* progress at a time
NextBroadcast ==
    \/ \E w \in HandlerWebSockets, c \in GameCodes, t \in BroadcastTeams :
           cm_connect_team(w, c, t)
    \/ \E w \in HandlerWebSockets : cm_disconnect(w)
    \/ \E c \in GameCodes, exclude \in HandlerWebSockets \cup {NoConnection} :
           broadcast_to_game_call(c, exclude)
    \/ \E failed \in BOOLEAN : broadcast_to_game_resume(failed)

SpecBroadcast == Init /\ [][NextBroadcast]_vars

\* handlers: the ConnectionManager of main.py with teams and a manager, the
\* reaper, and one send_personal_message and one broadcast_to_teams_only in
\* progress at a time
NextRegistry ==
    \/ \E w \in RegistrySockets, c \in GameCodes, t \in RegistryTeams :
           cm_connect_team(w, c, t)
    \/ \E w \in RegistrySockets, c \in GameCodes : cm_connect_manager(w, c)
    \/ \E w \in RegistrySockets : cm_disconnect(w)
    \/ \E w \in RegistrySockets : update_ping(w)
    \/ tick
    \/ \E timeout_seconds \in TimeoutInputs : cleanup_stale_connections(timeout_seconds)
    \/ \E id \in RegistrySockets : send_personal_message_call(id)
    \/ \E failed \in BOOLEAN : send_personal_message_resume(failed)
    \/ \E c \in GameCodes : broadcast_to_teams_only_call(c)
    \/ \E failed \in BOOLEAN : broadcast_to_teams_only_resume(failed)

SpecRegistry == Init /\ [][NextRegistry]_vars

\* handlers: the team and manager endpoints of main.py with the reaper
NextReaper ==
    \/ \E w \in RegistrySockets, c \in GameCodes, t \in RegistryTeams :
           main_team_endpoint_join(w, c, t)
    \/ \E w \in RegistrySockets, c \in GameCodes : cm_connect_manager(w, c)
    \/ \E w \in RegistrySockets : main_team_endpoint_finally(w)
    \/ \E w \in RegistrySockets : handler_sockets[w].team_name = "manager" /\ cm_disconnect(w)
    \/ \E w \in RegistrySockets : update_ping(w)
    \/ tick
    \/ \E timeout_seconds \in TimeoutInputs : cleanup_stale_connections(timeout_seconds)

SpecReaper == Init /\ [][NextReaper]_vars

\* ----------------------------------------------- properties of the round engine
\* C1: of the presses handled against one round that is in SongPlaying exactly
\* one is accepted: the press that finds the round in SongPlaying with no press
\* accepted yet is accepted and makes its team the winner, every press after
\* an accepted one is refused and changes nothing, and the number of presses
\* accepted against a round never exceeds one.
C1_SingleBuzzWinner ==
    [][\A c \in GameCodes, t \in PressNames, r \in ReactionTimes :
          (HasGame(c) /\ games[c].rounds_history # <<>> /\ register_buzzer_press(c, t, r)) =>
              /\ accepted' <= 1
              /\ (accepted = 0 /\ current_round_of(games[c]).state = "song_playing") =>
                     /\ last'.ok
                     /\ accepted' = 1
                     /\ current_round_of(games'[c]).buzzer_winner = t
                     /\ current_round_of(games'[c]).state = "buzzer_locked"
              /\ accepted >= 1 =>
                     /\ ~last'.ok
                     /\ accepted' = accepted
                     /\ games' = games]_vars

C1_Witness ==
    \E c \in DOMAIN games :
        /\ games[c].rounds_history # <<>>
        /\ current_round_of(games[c]).state = "buzzer_locked"
        /\ accepted = 1
        /\ ~last.ok

\* C2: a round's buzzer_winner, once set, is the same after every step in which
\* the round is still a round of the game.
C2_WinnerImmutable ==
    [][\A c \in DOMAIN games \cap DOMAIN games' :
          \A i \in DOMAIN games[c].rounds_history \cap DOMAIN games'[c].rounds_history :
              games[c].rounds_history[i].buzzer_winner # None =>
                  games'[c].rounds_history[i].buzzer_winner =
                      games[c].rounds_history[i].buzzer_winner]_vars

C2_Witness ==
    \E c \in DOMAIN games :
        /\ Len(games[c].rounds_history) = 2
        /\ games[c].rounds_history[1].buzzer_winner # None
        /\ games[c].rounds_history[1].state = "completed"
        /\ games[c].state = "finished"

\* C3: in every step the state of a round that stays in the history is left
\* alone, or moves SongPlaying -> BuzzerLocked, BuzzerLocked -> Evaluating,
\* Evaluating -> Completed, or from any state to Completed.
ForwardStep(a, b) ==
    \/ a = b
    \/ a = "song_playing" /\ b = "buzzer_locked"
    \/ a = "buzzer_locked" /\ b = "evaluating"
    \/ a = "evaluating" /\ b = "completed"
    \/ b = "completed"

C3_ForwardOnly ==
    [][\A c \in DOMAIN games \cap DOMAIN games' :
          \A i \in DOMAIN games[c].rounds_history \cap DOMAIN games'[c].rounds_history :
              ForwardStep(games[c].rounds_history[i].state,
                          games'[c].rounds_history[i].state)]_vars

C3_Witness ==
    \E c \in DOMAIN games :
        /\ games[c].rounds_history # <<>>
        /\ current_round_of(games[c]).state = "completed"
        /\ current_round_of(games[c]).team_answer # <<>>
        /\ ~last.ok

\* C6: a creation notification for a code that already has a room leaves that
\* room as it is: lifecycle state, round history and scores.
C6_FirstCreationWins ==
    [][\A c \in GameCodes, mr \in MaxRoundsInputs :
          (create_game(c, mr) /\ HasGame(c)) =>
              /\ games'[c].state = games[c].state
              /\ games'[c].rounds_history = games[c].rounds_history
              /\ games'[c].team_scores = games[c].team_scores]_vars

\* C8: at any time at most one round of a game is in a state other than
\* Completed.
C8_OneRoundInFlight ==
    \A c \in DOMAIN games :
        Cardinality({i \in DOMAIN games[c].rounds_history :
                        games[c].rounds_history[i].state # "completed"}) <= 1

\* C9: a start_round whose song request brings no song is refused and leaves
\* every game as it was: round history, current round number, lifecycle state
\* and scores.
C9_NoSongNoRound ==
    [][\A call \in BagToSet(sr_calls) :
          start_round_return(call, 0) =>
              /\ ~last'.ok
              /\ games' = games]_vars

\* song requests of the game object that came back without a song
FailedStarts(c) ==
    starts - Len(games[c].rounds_history) - BagCardinality(sr_calls)

C9_Witness ==
    \E c \in DOMAIN games :
        /\ FailedStarts(c) >= 1
        /\ Len(games[c].rounds_history) >= 1
        /\ games[c].team_scores # <<>>
        /\ ~last.ok

\* C10: an evaluate_answer handled on a round in Evaluating adds to the
\* cumulative score of the round's buzz winner 10 points for the song, 5 for
\* the artist and 5 for the movie/TV title judged correct, and leaves the
\* cumulative score of every other team, and the set of scored teams apart
\* from the winner, as they were; the points of every one of the eight
\* judgements are the sum of those three awards.
Awarded(s, a, m) ==
    (IF s THEN 10 ELSE 0) + (IF a THEN 5 ELSE 0) + (IF m THEN 5 ELSE 0)

C4_DuplicateNameRejected ==
    [][\A w \in WebSockets, c \in GameCodes, t \in JoinNames :
          (/\ HasGame(c)
           /\ games[c].state = "waiting"
           /\ t \in get_teams_list(team_connections, c)
           /\ team_websocket_join(w, c, t)) =>
              /\ sockets'[w].pc \notin {"acking", "loop"}
              /\ team_connections' = team_connections]_vars

\* the websockets that joined game c as team t and whose client is still there
LiveSessions(c, t) ==
    {w \in WebSockets : /\ sockets[w].pc \in {"acking", "loop"}
                        /\ sockets[w].open
                        /\ sockets[w].game_code = c
                        /\ sockets[w].team_name = t}

\* the state of the room as a snapshot would carry it
RoomSnapshot(c, t) ==
    [type |-> "connection_ack", team_name |-> t, game_code |-> c,
     game_state |-> games[c].state,
     teams |-> get_teams_list(team_connections, c),
     team_scores |-> games[c].team_scores]

\* C5: a team that joined before, whose websocket is gone, and that joins again
\* under the same name keeps its cumulative score, is the one session of
\* that name and receives a snapshot equal to the room's state after the join
\* (status, roster, scores); and the session of a websocket that stays
\* connected is not taken away by a step that is not a join.
C5_ReconnectionIdempotent ==
    [][/\ \A w \in WebSockets, c \in GameCodes, t \in JoinNames :
             (/\ HasGame(c)
              /\ Truthy(t)
              /\ t \in ScoredTeams(games[c].team_scores)
              /\ LiveSessions(c, t) = {}
              /\ team_websocket_join(w, c, t)) =>
                 /\ ScoreOf(games'[c].team_scores, t) = ScoreOf(games[c].team_scores, t)
                 /\ team_connections'[c][t] = w
                 /\ sockets'[w].ack = RoomSnapshot(c, t)'
       /\ \A c \in GameCodes, t \in JoinNames :
             (/\ t \in get_teams_list(team_connections, c)
              /\ team_connections[c][t] \in LiveSessions(c, t) \cap LiveSessions(c, t)'
              /\ \A v \in WebSockets : sockets[v].pc = "free" => sockets'[v].pc = "free") =>
                 /\ t \in get_teams_list(team_connections', c)
                 /\ team_connections'[c][t] = team_connections[c][t]]_vars

\* ------------------------------------------------ properties of main_simple
\* C7: the number of teams of a room never exceeds the max_teams of the
\* settings the room was created with.
C7_TeamCountWithinMax ==
    \A c \in DOMAIN rooms :
        Cardinality(DOMAIN rooms[c].team_connections) <= rooms[c].settings.max_teams

\* the teams whose cumulative score is strictly above every other team's
StrictlyHighest(ts) ==
    {t \in ScoredTeams(ts) :
        \A u \in ScoredTeams(ts) \ {t} : ScoreOf(ts, t) > ScoreOf(ts, u)}

\* C11: end_game moves the game to Finished and, when one team's cumulative
\* score is strictly above every other team's (zero and negative scores
\* included), reports that team as the winner.
C11_EndGameWinner ==
    [][\A c \in GameCodes :
          (HasGame(c) /\ end_game(c)) =>
              /\ games'[c].state = "finished"
              /\ last'.ok
              /\ \A t \in StrictlyHighest(games[c].team_scores) : last'.winner = t]_vars

\* C12: an evaluate_answer handled while the current round is in a state other
\* than Evaluating (SongPlaying, BuzzerLocked, Completed) is refused and
\* leaves every game, round records and cumulative scores, as it was.
C12_EvaluateOutsideEvaluating ==
    [][\A c \in GameCodes, e \in EvalInputs :
          (/\ HasGame(c)
           /\ games[c].rounds_history # <<>>
           /\ current_round_of(games[c]).state # "evaluating"
           /\ evaluate_answer(c, e[1], e[2], e[3])) =>
              /\ ~last'.ok
              /\ games' = games]_vars

\* a refusal in SongPlaying that no start_round produced: the game has room
\* for another round and every song request made has brought its round
C12_Witness ==
    \E c \in DOMAIN games :
        /\ games[c].rounds_history # <<>>
        /\ current_round_of(games[c]).state = "song_playing"
        /\ games[c].state = "playing"
        /\ games[c].current_round < games[c].max_rounds
        /\ starts = Len(games[c].rounds_history)
        /\ ~last.ok

\* C13: a submit_answer from the round's buzz winner while the round is in
\* BuzzerLocked is accepted, records the answer and moves the round to
\* Evaluating; from any other team or in any other round state it is refused
\* and leaves every game as it was.
C13_SubmitOnlyByWinner ==
    [][\A c \in GameCodes, t \in PressNames, ans \in AnswerInputs :
          (/\ HasGame(c)
           /\ games[c].rounds_history # <<>>
           /\ submit_answer(c, t, ans)) =>
              IF /\ current_round_of(games[c]).buzzer_winner = t
                 /\ current_round_of(games[c]).state = "buzzer_locked"
                THEN /\ last'.ok
                     /\ current_round_of(games'[c]).state = "evaluating"
                     /\ current_round_of(games'[c]).team_answer = <<[team_name |-> t] @@ ans>>
                     /\ games'[c].team_scores = games[c].team_scores
                     /\ Len(games'[c].rounds_history) = Len(games[c].rounds_history)
                ELSE /\ ~last'.ok
                     /\ games' = games]_vars

C13_Witness ==
    \E c \in DOMAIN games :
        /\ games[c].rounds_history # <<>>
        /\ current_round_of(games[c]).state = "evaluating"
        /\ current_round_of(games[c]).team_answer # <<>>
        /\ current_round_of(games[c]).team_answer[1].team_name =
               current_round_of(games[c]).buzzer_winner
        /\ ~last.ok

\* C14: a timeout handled for a round in BuzzerLocked, whose winner has not
\* submitted, moves the round to Evaluating with an empty answer of the winner.
C14_TimeoutToEvaluating ==
    [][\A c \in GameCodes :
          (/\ HasGame(c)
           /\ games[c].rounds_history # <<>>
           /\ current_round_of(games[c]).state = "buzzer_locked"
           /\ handle_timeout(c)) =>
              /\ current_round_of(games'[c]).state = "evaluating"
              /\ current_round_of(games'[c]).team_answer =
                     <<[team_name |-> current_round_of(games[c]).buzzer_winner,
                        song_name |-> None, artist_name |-> None,
                        movie_tv_name |-> None]>>]_vars

\* C16: a team join addressed to a room that is not in Waiting is rejected
\* (no connection_ack is prepared for it), and the room's roster and scores
\* are left unchanged.
C16_JoinOutsideWaitingRejected ==
    [][\A w \in WebSockets, c \in GameCodes, t \in JoinNames :
          (/\ HasGame(c)
           /\ games[c].state # "waiting"
           /\ team_websocket_join(w, c, t)) =>
              /\ sockets'[w].pc # "acking"
              /\ get_teams_list(team_connections', c) = get_teams_list(team_connections, c)
              /\ games'[c].team_scores = games[c].team_scores]_vars

\* C17: start_game takes effect only on a room in Waiting, which it moves to
\* Playing; on a room that is Playing or Finished it is rejected (the call
\* reports failure), leaving lifecycle state and scores unchanged.
C17_StartGameOnlyFromWaiting ==
    [][\A c \in GameCodes :
          (HasGame(c) /\ start_game_endpoint(c)) =>
              IF games[c].state = "waiting"
                THEN games'[c].state = "playing" /\ last'.ok
                ELSE /\ ~last'.ok
                     /\ games'[c].state = games[c].state
                     /\ games'[c].team_scores = games[c].team_scores]_vars

\* C18: a round is appended to a room's history only while the room is
\* Playing: whenever the history of a game grows, the game is in Playing.
C18_RoundsOnlyWhilePlaying ==
    [][\A c \in GameCodes :
          (/\ HasGame(c)
           /\ c \in DOMAIN games'
           /\ Len(games'[c].rounds_history) > Len(games[c].rounds_history)) =>
              games[c].state = "playing"]_vars

\* C19: the catalog never answering a song of the exclusion list it was given
\* (CatalogAnswers), no song id appears in two rounds of the same game's
\* history, overlapping start_round calls included.
C19_NoRepeatedSong ==
    \A c \in DOMAIN games :
        \A i, j \in DOMAIN games[c].rounds_history :
            games[c].rounds_history[i].song = games[c].rounds_history[j].song => i = j

\* C20: a broadcast with an excluded connection is never delivered to the
\* excluded connection, and once it is over, every other connection that has
\* been registered in the room from the call on has had the message sent to
\* it, connections registering or unregistering during the broadcast included.
C20_BroadcastExclusion ==
    /\ broadcast.exclude_connection \notin broadcast.sent
    /\ (broadcast.pc \in {"returned", "raised"}
        /\ broadcast.exclude_connection \in broadcast.initial) =>
           \A w \in broadcast.initial \ {broadcast.exclude_connection} :
               handler_sockets[w].pc = "registered" =>
                   w \in broadcast.sent \cup broadcast.disconnected_connections

C29_RoundNumbering ==
    \A c \in DOMAIN games :
        /\ games[c].current_round = Len(games[c].rounds_history)
        /\ \A i \in DOMAIN games[c].rounds_history :
               games[c].rounds_history[i].round_number = i

\* two rounds in the history of a game, the second started while the first
\* was still open
C29_Witness ==
    \E c \in DOMAIN games :
        /\ Len(games[c].rounds_history) = 2
        /\ games[c].rounds_history[1].state # "completed"
        /\ games[c].rounds_history[2].round_number = 2

\* the teams holding the highest cumulative score
TopTeams(ts) ==
    {t \in ScoredTeams(ts) : \A u \in ScoredTeams(ts) : ScoreOf(ts, t) >= ScoreOf(ts, u)}

\* C27: when two or more teams share the highest cumulative score at
\* end_game, no winner is declared.
C27_TieNoWinner ==
    [][\A c \in GameCodes :
          (/\ HasGame(c)
           /\ Cardinality(TopTeams(games[c].team_scores)) >= 2
           /\ end_game(c)) =>
              last'.winner = None]_vars

\* C28: start_game on a Waiting room with fewer than 2 teams is rejected and
\* the room stays Waiting.
C28_StartNeedsTwoTeams ==
    [][\A c \in GameCodes :
          (/\ HasGame(c)
           /\ games[c].state = "waiting"
           /\ Cardinality(get_teams_list(team_connections, c)) < 2
           /\ start_game_endpoint(c)) =>
              /\ ~last'.ok
              /\ games'[c].state = "waiting"]_vars

\* str.lower() on the team names of the inputs
lower(s) ==
    IF s = "Red" THEN "red"
    ELSE IF s = "Blue" THEN "blue"
    ELSE IF s = "Green" THEN "green"
    ELSE s

\* C30: team names are compared case-insensitively within a room: two names
\* that differ only in letter case are never both in the same room's roster.
C30_CaseInsensitiveNames ==
    \A c \in DOMAIN rooms :
        \A t, u \in DOMAIN rooms[c].team_connections :
            lower(t) = lower(u) => t = u

\* C26: the answer_submitted event is delivered to manager connections of the
\* room only; it is never delivered to a team connection.
C26_AnswerToManagersOnly ==
    \A w \in answer_submitted :
        /\ sockets[w].pc \in {"manager", "manager_closed"}
        /\ HasGame(sockets[w].game_code)

\* an answer was submitted while a team and a manager were connected, and the
\* manager got the event
C26_Witness ==
    /\ answer_submitted # {}
    /\ \E c \in DOMAIN games :
           /\ games[c].rounds_history # <<>>
           /\ current_round_of(games[c]).state = "evaluating"
           /\ get_teams_list(team_connections, c) # {}

\* -------------------------------- properties of the handlers' connection registry
\* the connection ids held by some index of the ConnectionManager
IndexedIds ==
    UNION {Live(active_connections[c]) : c \in DOMAIN active_connections}
      \cup UNION {{e.connection_id : e \in LiveTeams(cm_team_connections[c])} :
                     c \in DOMAIN cm_team_connections}
      \cup {cm_manager_connections[c] : c \in DOMAIN cm_manager_connections}
      \cup connection_registry(handler_sockets)
      \cup DOMAIN last_ping

\* C23: disconnect is idempotent and complete: after disconnect(id) the id is
\* in none of the indexes (active_connections, team_connections,
\* manager_connections, connection_registry, last_ping), and a disconnect of
\* an id that was disconnected before leaves the registry state unchanged.
C23_DisconnectComplete ==
    [][\A w \in HandlerWebSockets :
           (cm_last'.op = "disconnect" /\ cm_last'.arg = w
            /\ handler_sockets[w].pc # "ended" /\ handler_sockets'[w].pc = "ended") =>
               /\ w \notin IndexedIds'
               /\ w \notin connection_registry(handler_sockets) =>
                      /\ UNCHANGED <<active_connections, cm_team_connections,
                                     cm_manager_connections, last_ping>>
                      /\ connection_registry(handler_sockets') =
                             connection_registry(handler_sockets)]_vars

\* C22: send_personal_message returns true when the transport accepted the
\* message and false on a connection id missing from the registry or on a
\* transport failure, and in the latter case the failing connection is then
\* in none of the indexes.
C22_SendNeverRaises ==
    [][/\ (personal.pc = "idle" /\ cm_last'.op = "send_personal_message"
           /\ cm_last' # cm_last) =>
              /\ cm_last'.arg \notin connection_registry(handler_sockets)
              /\ cm_last'.result = FALSE
       /\ (personal.pc = "sending" /\ personal'.pc = "idle") =>
              /\ cm_last' = CmRet("send_personal_message", personal.connection_id,
                                  cm_last'.result)
              /\ cm_last'.result = FALSE => personal.connection_id \notin IndexedIds'
              /\ cm_last'.result = TRUE =>
                     UNCHANGED <<active_connections, cm_team_connections,
                                 cm_manager_connections, last_ping, handler_sockets>>]_vars

\* C21: a send failure on one connection does not abort the remaining sends
\* of a broadcast (broadcast_to_game, broadcast_to_teams_only): when the
\* broadcast has ended after a send failed, every other connection it was
\* aimed at that is still registered has received the event, and each
\* connection whose send failed is unregistered.
C21_FailureIsolation ==
    \A b \in {broadcast, teams_only} :
        (b.pc \in {"returned", "raised"} /\ b.disconnected_connections # {}) =>
            /\ \A w \in b.initial \ {b.exclude_connection} :
                   w \in connection_registry(handler_sockets) => w \in b.sent
            /\ b.disconnected_connections \cap connection_registry(handler_sockets) = {}

\* the age of the last heartbeat of a connection
PingAge(id) == clock - last_ping[id]

Roster(c) ==
    get_teams_in_game(cm_team_connections, c)
      \cup IF c \in DOMAIN game_rooms
             THEN {game_rooms[c].teams[i] : i \in DOMAIN game_rooms[c].teams}
             ELSE {}

\* C25: when the reaper removes the stale connection of a team of the roster,
\* the team stays in the room's roster and is marked disconnected.
C25_ReapedTeamStays ==
    [][cm_last'.op = "cleanup_stale_connections" =>
           \A w \in HandlerWebSockets :
               (/\ w \in connection_registry(handler_sockets)
                /\ w \notin connection_registry(handler_sockets')
                /\ handler_sockets[w].team_name # "manager"
                /\ handler_sockets[w].team_name \in Roster(handler_sockets[w].game_code)) =>
                   LET c == handler_sockets[w].game_code
                       t == handler_sockets[w].team_name
                   IN /\ t \in Roster(c)'
                      /\ <<c, t>> \in DOMAIN team_table'
                      /\ team_table'[<<c, t>>].connection_status = "disconnected"]_vars

\* ------------------------------------------------ properties settled later
\* C32: once a round is completed no operation changes its record, and while
\* the completed round is the latest round of the game no operation changes
\* a team's cumulative score; a timeout after the round completed has no
\* effect.
C32_CompletedRoundFrozen ==
    [][\A c \in DOMAIN games \cap DOMAIN games' :
           LET h == games[c].rounds_history
               h2 == games'[c].rounds_history
           IN /\ \A i \in DOMAIN h \cap DOMAIN h2 :
                     h[i].state = "completed" => h2[i] = h[i]
              /\ (h # <<>> /\ Len(h2) = Len(h) /\ h[Len(h)].state = "completed") =>
                     games'[c].team_scores = games[c].team_scores]_vars

\* C38: finished is terminal and frozen: once end_game has moved a game to
\* finished, no later operation on that game (start_game, start_round, buzz,
\* submit_answer, evaluate_answer, timeout) changes its lifecycle state or a
\* team's cumulative score. create_game, which replaces the game by a new one
\* in waiting, is not one of these operations.
C38_FinishedFrozen ==
    [][\A c \in DOMAIN games \cap DOMAIN games' :
           (games[c].state = "finished" /\ games'[c].state # "waiting") =>
               /\ games'[c].state = "finished"
               /\ games'[c].team_scores = games[c].team_scores]_vars

\* C39: the number of rounds in the history of a game never exceeds the
\* game's max_rounds, start_round calls that overlap on the song catalog
\* included.
C39_RoundsWithinMax ==
    \A c \in DOMAIN games : Len(games[c].rounds_history) <= games[c].max_rounds

C37_BuzzNeedsOpenRound ==
    [][\A c \in DOMAIN rooms \cap DOMAIN rooms' :
           rooms'[c].buzzer_locked > rooms[c].buzzer_locked =>
               /\ rooms[c].current_round # None
               /\ ~(rooms[c].locked_components.song_name
                    /\ rooms[c].locked_components.artist_content)]_vars

\* C33: when the handler of a join that was rejected for a taken name runs its
\* cleanup, the team that holds the name, connected on another socket that is
\* still open, stays in the roster with its own connection.
C33_RejectedJoinLeavesOriginal ==
    [][\A w \in DOMAIN simple_sockets :
           (simple_sockets[w].pc = "name_taken" /\ simple_sockets'[w].pc = "closed") =>
               LET c == simple_sockets[w].game_code
                   t == simple_sockets[w].team_name
               IN (/\ c \in DOMAIN rooms
                   /\ t \in DOMAIN rooms[c].team_connections
                   /\ rooms[c].team_connections[t] # w
                   /\ simple_sockets[rooms[c].team_connections[t]].open
                   /\ simple_sockets[rooms[c].team_connections[t]].pc = "loop"
                   /\ ~simple_sockets[rooms[c].team_connections[t]].stale) =>
                      /\ c \in DOMAIN rooms'
                      /\ t \in DOMAIN rooms'[c].team_connections
                      /\ rooms'[c].team_connections[t] = rooms[c].team_connections[t]]_vars

\* C34: a team_join of main.py's team endpoint with a name that no team of
\* the room has, sent to a waiting room below its capacity, succeeds, and the
\* team is in the room's roster afterwards.
C34_ValidJoinSucceeds ==
    [][\A w \in DOMAIN handler_sockets :
           (/\ handler_sockets[w].pc = "free"
            /\ handler_sockets'[w].pc # "free"
            /\ cm_last'.op = "team_join") =>
               LET c == handler_sockets'[w].game_code
                   t == handler_sockets'[w].team_name
               IN (/\ t \notin Roster(c)
                   /\ t \notin get_teams_in_game(cm_team_connections, c)
                   /\ Cardinality(get_teams_in_game(cm_team_connections, c))
                          < max_teams_per_game
                   /\ c \in DOMAIN game_rooms => game_rooms[c].game_state = "waiting") =>
                      /\ cm_last'.result
                      /\ c \in DOMAIN game_rooms'
                      /\ \E i \in DOMAIN game_rooms'[c].teams :
                             game_rooms'[c].teams[i] = t]_vars

\* ConnectionManager.is_team_connected
is_team_connected(game_code, team_name) ==
    /\ game_code \in DOMAIN cm_team_connections
    /\ team_name \in TeamKeys(cm_team_connections[game_code])

\* ConnectionManager.is_manager_connected
is_manager_connected(game_code) == game_code \in DOMAIN cm_manager_connections

\* C35: is_team_connected(room, team) is true exactly when a registered
\* connection belongs to the team in the room, and is_manager_connected(room)
\* exactly when a registered manager connection of the room exists.
C35_IndexMatchesRegistry ==
    \A c \in GameCodes :
        /\ \A t \in RegistryTeams :
               is_team_connected(c, t) <=>
                   \E w \in connection_registry(handler_sockets) :
                       /\ handler_sockets[w].game_code = c
                       /\ handler_sockets[w].team_name = t
        /\ is_manager_connected(c) <=>
               \E w \in connection_registry(handler_sockets) :
                   /\ handler_sockets[w].game_code = c
                   /\ handler_sockets[w].team_name = "manager"

\* C36: a kick leaves the kicked team out of the room's roster, and when the
\* handler of the kicked connection runs its cleanup afterwards, every team
\* session held by another, open connection stays in the roster, a team that
\* joined later under the kicked name included.
C36_KickRemovesOnlyKicked ==
    [][\A w \in DOMAIN simple_sockets :
           LET c == simple_sockets[w].game_code
               t == simple_sockets[w].team_name
           IN /\ (~simple_sockets[w].kicked /\ simple_sockets'[w].kicked) =>
                     t \notin DOMAIN rooms'[c].team_connections
              /\ (/\ simple_sockets[w].kicked
                  /\ simple_sockets[w].pc = "loop"
                  /\ simple_sockets'[w].pc = "closed"
                  /\ c \in DOMAIN rooms) =>
                     \A t2 \in DOMAIN rooms[c].team_connections :
                         (/\ rooms[c].team_connections[t2] # w
                          /\ simple_sockets[rooms[c].team_connections[t2]].open) =>
                             /\ t2 \in DOMAIN rooms'[c].team_connections
                             /\ rooms'[c].team_connections[t2] =
                                    rooms[c].team_connections[t2]]_vars

\* the connections the registry holds for room c, the keys of its
\* team_connections and the ids of its active_connections
RoomConnections(c) ==
    [registered |-> {w \in connection_registry(handler_sockets) :
                         handler_sockets[w].game_code = c},
     teams |-> get_teams_in_game(cm_team_connections, c),
     active |-> IF c \in DOMAIN active_connections
                  THEN Live(active_connections[c]) ELSE {}]

\* C40: an operation of RoundManager addressed to room a leaves the game of
\* every other room b as it was (state, rounds, scores); an operation of the
\* ConnectionManager addressed to room a leaves the connections and the team
\* names of every other room b as they were; and a broadcast to room a sends
\* to no connection that is registered in another room.
C40_RoomsIsolated ==
    [][\A a \in IsolationCodes : \A b \in IsolationCodes \ {a} :
           /\ RoundManagerCall(a) =>
                  /\ (b \in DOMAIN games) = (b \in DOMAIN games')
                  /\ b \in DOMAIN games => games'[b] = games[b]
           /\ ConnectionManagerCall(a) =>
                  /\ RoomConnections(b)' = RoomConnections(b)
                  /\ (broadcast'.game_code = a /\ broadcast'.target # NoConnection) =>
                         handler_sockets[broadcast'.target].game_code = a
                  /\ broadcast'.game_code = a =>
                         \A w \in broadcast'.sent : handler_sockets[w].game_code = a]_vars

\* each room has a registered connection of a team Red, a broadcast to
\* AB12CD has returned after sending to the connection of AB12CD, and the
\* connection of XY34ZW is registered as before
C40_Witness ==
    /\ \A c \in IsolationCodes :
           /\ RoomConnections(c).registered # {}
           /\ RoomConnections(c).teams = {"Red"}
           /\ RoomConnections(c).active = RoomConnections(c).registered
    /\ broadcast.pc = "returned"
    /\ broadcast.game_code = "AB12CD"
    /\ broadcast.sent = RoomConnections("AB12CD").registered
====
